---------------------------- MODULE Spec2Model ----------------------------
(***************************************************************************)
(* Model of the n26-vibe-analyzer front end:                               *)
(*   - FinancialDashboard (src/src/components/FinancialDashboard.js): the  *)
(*     useEffect that parses the CSV text and builds the result object;    *)
(*   - SortableTable (src/src/components/ui/SortableTable.js): sort state, *)
(*     sorted view, rendering of the body and the two exports.              *)
(*                                                                         *)
(* Dates.  A "YYYY-MM-DD" string is the tuple <<y, m, d>>; a JavaScript    *)
(* Date is its time value in hours since 1970-01-01T00:00Z (every offset   *)
(* and every date used here is a whole number of hours).  A cell of a row, *)
(* and every number the code computes, is a tagged JavaScript value         *)
(* (number, NaN, string, null, undefined); amounts are integers (cents),    *)
(* an average is kept as the ratio it is computed from, and floating-point  *)
(* rounding is not modelled.                                                *)
(***************************************************************************)
EXTENDS Integers, Sequences, FiniteSets, TLC

VARIABLES
    tz,          \* the time zone of the browser the dashboard runs in
    csvData,     \* FinancialDashboard prop: NoCsv or the rows Papa.parse yields
    pending,     \* TRUE while the useEffect for the current csvData has not run
    data,        \* FinancialDashboard state `data`
    isLoading,   \* FinancialDashboard state `isLoading`
    error,       \* FinancialDashboard state `error`
    shown,       \* what the last render of FinancialDashboard returned
    mounted,     \* TRUE while a SortableTable instance is mounted
    props,       \* props of the mounted SortableTable
    sortConfig,  \* SortableTable state `sortConfig`
    saved,       \* the file last handed to saveAs (Null: none yet)
    alerted,     \* the message last shown with alert() (Null: none yet)
    second       \* props and `sortConfig` of a second SortableTable instance
                 \* mounted beside the first (NoInstance: there is none)

dashVars  == <<tz, csvData, pending, data, isLoading, error, shown>>
tableVars == <<mounted, props, sortConfig, saved, alerted, second>>
vars      == <<tz, csvData, pending, data, isLoading, error, shown,
               mounted, props, sortConfig, saved, alerted, second>>

(***************************************************************************)
(* Bounds                                                                  *)
(***************************************************************************)
MaxRecords == 2     \* records in one CSV input
MaxRows    == 3     \* rows handed to one table

\* csvData is [given, rows]: whether a text was passed, and the rows Papa.parse
\* returns for it.  NoCsv is the falsy prop (undefined, null or "").
NoCsv       == [given |-> FALSE, rows |-> <<>>]
CsvText(rs) == [given |-> TRUE, rows |-> rs]
NoData      == [null |-> TRUE]      \* useState(null) of `data`
NoError     == "null"               \* useState(null) of `error`

(***************************************************************************)
(* Calendar arithmetic of Date: Date.parse of a date-only string (UTC      *)
(* midnight) and toISOString().slice(0, 10) (the UTC calendar date).       *)
(***************************************************************************)
DaysFromCivil(y, m, d) ==
    LET yy  == IF m <= 2 THEN y - 1 ELSE y
        era == yy \div 400
        yoe == yy - era * 400
        mp  == (m + 9) % 12
        doy == (153 * mp + 2) \div 5 + d - 1
        doe == yoe * 365 + yoe \div 4 - yoe \div 100 + doy
    IN  era * 146097 + doe - 719468

CivilFromDays(z0) ==
    LET z   == z0 + 719468
        era == z \div 146097
        doe == z - era * 146097
        yoe == (doe - doe \div 1460 + doe \div 36524 - doe \div 146096) \div 365
        doy == doe - (365 * yoe + yoe \div 4 - yoe \div 100)
        mp  == (5 * doy + 2) \div 153
        d   == doy - (153 * mp + 2) \div 5 + 1
        m   == IF mp < 10 THEN mp + 3 ELSE mp - 9
        y   == yoe + era * 400
    IN  <<IF m <= 2 THEN y + 1 ELSE y, m, d>>

\* new Date("YYYY-MM-DD").getTime(), in hours
ParseDate(s) == DaysFromCivil(s[1], s[2], s[3]) * 24

\* date.toISOString().slice(0, 10)
ToISODate(t) == CivilFromDays(t \div 24)

(***************************************************************************)
(* Time zones.  std/dst are the offsets from UTC in hours, dstStart/dstEnd *)
(* the UTC instants (hours since the epoch) between which dst applies.     *)
(***************************************************************************)
UTCZone    == [name |-> "UTC", std |-> 0, dst |-> 0, dstStart |-> 0, dstEnd |-> 0]
BerlinZone == [name     |-> "Europe/Berlin", std |-> 1, dst |-> 2,
               dstStart |-> ParseDate(<<2024, 3, 31>>) + 1,
               dstEnd   |-> ParseDate(<<2024, 10, 27>>) + 1]
NewYorkZone == [name     |-> "America/New_York", std |-> -5, dst |-> -4,
                dstStart |-> ParseDate(<<2024, 3, 10>>) + 7,
                dstEnd   |-> ParseDate(<<2024, 11, 3>>) + 6]
TimeZones  == {UTCZone, BerlinZone, NewYorkZone}

Offset(zone, t) ==
    IF zone.dstStart <= t /\ t < zone.dstEnd THEN zone.dst ELSE zone.std

LocalTime(zone, t) == t + Offset(zone, t)

\* UTC(t) of ECMAScript: a local time that is skipped or repeated at a
\* transition is read with the offset in force before the transition
LocalToUTC(zone, l) ==
    LET uStd == l - zone.std
        uDst == l - zone.dst
        okStd == Offset(zone, uStd) = zone.std
        okDst == Offset(zone, uDst) = zone.dst
    IN  IF okStd /\ okDst THEN (IF uDst < uStd THEN uDst ELSE uStd)
        ELSE IF okStd THEN uStd
        ELSE IF okDst THEN uDst
        ELSE uStd

(***************************************************************************)
(* JavaScript values of table cells.  A string is the sequence of its      *)
(* characters; a number is an integer or NaN; a row is an object.          *)
(***************************************************************************)
JsNull      == [t |-> "null"]
JsUndefined == [t |-> "undefined"]
JsNaN       == [t |-> "nan"]
JsThrow     == [t |-> "throw"]          \* the evaluation threw
Num(n)      == [t |-> "number", v |-> n]
Str(cs)     == [t |-> "string", v |-> cs]
Obj(row)    == [t |-> "object", v |-> row]

IsNullish(x) == x.t \in {"null", "undefined"}

\* the truthiness used by `x || y` and `x ? y : z`
Truthy(x) ==
    CASE x.t = "number" -> x.v # 0
      [] x.t = "string" -> Len(x.v) > 0
      [] x.t = "object" -> TRUE
      [] OTHER          -> FALSE

\* row[key]
GetField(row, key) == IF key \in DOMAIN row THEN row[key] ELSE JsUndefined

\* x.key for any value x: undefined on a number or a string, a TypeError on
\* null and undefined
GetProp(x, key) ==
    CASE x.t = "object" -> GetField(x.v, key)
      [] IsNullish(x)   -> JsThrow
      [] OTHER          -> JsUndefined

DigitChars == <<"0", "1", "2", "3", "4", "5", "6", "7", "8", "9">>
IsDigit(c) == \E i \in 1..10 : DigitChars[i] = c
DigitVal(c) == (CHOOSE i \in 1..10 : DigitChars[i] = c) - 1

\* the decimal digits of a natural number
RECURSIVE NatChars(_)
NatChars(n) ==
    IF n < 10 THEN <<DigitChars[n + 1]>>
    ELSE NatChars(n \div 10) \o <<DigitChars[(n % 10) + 1]>>

IntChars(n) == IF n < 0 THEN <<"-">> \o NatChars(-n) ELSE NatChars(n)
Pad2(n) == IF n < 10 THEN <<"0">> \o NatChars(n) ELSE NatChars(n)

\* String(x) for the values a cell can hold
ToChars(x) ==
    CASE x.t = "number"    -> IntChars(x.v)
      [] x.t = "string"    -> x.v
      [] x.t = "nan"       -> <<"N", "a", "N">>
      [] x.t = "null"      -> <<"n", "u", "l", "l">>
      [] x.t = "undefined" -> <<"u", "n", "d", "e", "f", "i", "n", "e", "d">>
      [] OTHER             -> <<"[", "o", "b", "j", "e", "c", "t", "]">>

\* Number(x)
ToNumber(x) ==
    CASE x.t = "number" -> x
      [] x.t = "null"   -> Num(0)
      [] x.t = "string" ->
            IF Len(x.v) = 0 THEN Num(0)
            ELSE IF \A i \in 1..Len(x.v) : IsDigit(x.v[i])
            THEN Num(LET val[i \in 0..Len(x.v)] ==
                             IF i = 0 THEN 0 ELSE 10 * val[i - 1] + DigitVal(x.v[i])
                     IN  val[Len(x.v)])
            ELSE JsNaN
      [] OTHER          -> JsNaN

\* the text of a date, "YYYY-MM-DD"
DateChars(d) ==
    NatChars(d[1]) \o <<"-">> \o Pad2(d[2]) \o <<"-">> \o Pad2(d[3])

IsDateText(cs) ==
    /\ Len(cs) = 10
    /\ cs[5] = "-" /\ cs[8] = "-"
    /\ \A i \in {1, 2, 3, 4, 6, 7, 9, 10} : IsDigit(cs[i])

\* new Date(text).getTime() in hours, for a text of the form YYYY-MM-DD
DateTextTime(cs) ==
    ParseDate(<<1000 * DigitVal(cs[1]) + 100 * DigitVal(cs[2])
                  + 10 * DigitVal(cs[3]) + DigitVal(cs[4]),
                10 * DigitVal(cs[6]) + DigitVal(cs[7]),
                10 * DigitVal(cs[9]) + DigitVal(cs[10])>>)

\* toLowerCase
UpperChars == <<"A", "B", "C", "D", "E", "F", "G", "H", "I", "J", "K", "L", "M",
                "N", "O", "P", "Q", "R", "S", "T", "U", "V", "W", "X", "Y", "Z">>
LowerChars == <<"a", "b", "c", "d", "e", "f", "g", "h", "i", "j", "k", "l", "m",
                "n", "o", "p", "q", "r", "s", "t", "u", "v", "w", "x", "y", "z">>
LowerChar(c) ==
    IF \E i \in 1..Len(UpperChars) : UpperChars[i] = c
    THEN LowerChars[CHOOSE i \in 1..Len(UpperChars) : UpperChars[i] = c]
    ELSE c
ToLowerCase(cs) == [i \in 1..Len(cs) |-> LowerChar(cs[i])]

\* localeCompare of two lower-case texts: space and punctuation before digits
\* before letters, letters in alphabetical order, a prefix before its
\* extensions
Collation == <<" ", ",", "-">> \o DigitChars \o LowerChars
CharRank(c) ==
    IF \E i \in 1..Len(Collation) : Collation[i] = c
    THEN CHOOSE i \in 1..Len(Collation) : Collation[i] = c
    ELSE 0
LocaleCompare(a, b) ==
    LET n    == IF Len(a) < Len(b) THEN Len(a) ELSE Len(b)
        diff == {i \in 1..n : CharRank(a[i]) # CharRank(b[i])}
    IN  IF diff = {}
        THEN (IF Len(a) < Len(b) THEN -1 ELSE IF Len(a) > Len(b) THEN 1 ELSE 0)
        ELSE LET i == CHOOSE j \in diff : \A k \in diff : j <= k
             IN  IF CharRank(a[i]) < CharRank(b[i]) THEN -1 ELSE 1

(***************************************************************************)
(* lodash / Array helpers and the arithmetic of JavaScript numbers         *)
(***************************************************************************)
\* the elements of an array
Range(s) == {s[i] : i \in 1..Len(s)}

Abs(x)  == IF x < 0 THEN -x ELSE x
Sign(x) == IF x < 0 THEN -1 ELSE IF x > 0 THEN 1 ELSE 0

\* a + b of two operands that are not strings: NaN as soon as one is
\* undefined or NaN, null counting as 0
JsAdd(a, b) ==
    LET x == ToNumber(a)
        y == ToNumber(b)
    IN  IF x.t = "nan" \/ y.t = "nan" THEN JsNaN ELSE Num(x.v + y.v)

\* Math.abs(x)
MathAbs(x) ==
    LET n == ToNumber(x) IN IF n.t = "nan" THEN JsNaN ELSE Num(Abs(n.v))

\* x > 0 and x < 0: false when x is undefined or NaN
IsPositive(x) == LET n == ToNumber(x) IN n.t = "number" /\ n.v > 0
IsNegative(x) == LET n == ToNumber(x) IN n.t = "number" /\ n.v < 0

\* sum / n for a count n: kept as the ratio; 0 / 0 and NaN / n are NaN
Ratio(sum, n) ==
    IF sum.t # "number" \/ n = 0 THEN JsNaN
    ELSE [t |-> "ratio", num |-> sum.v, den |-> n]

\* the sign of a - b as Array.prototype.sort reads the result of a comparator
\* (a, b) => a - b: a NaN result counts as 0
SignOfDifference(a, b) ==
    IF a.t = "ratio" /\ b.t = "ratio"
    THEN Sign(a.num * b.den - b.num * a.den)
    ELSE LET x == ToNumber(a)
             y == ToNumber(b)
         IN  IF x.t = "nan" \/ y.t = "nan" THEN 0 ELSE Sign(x.v - y.v)

\* lodash's compareAscending on numbers, null, undefined and NaN: numbers in
\* order, then null, then undefined, then NaN; NaN is greater than everything,
\* another NaN included
CompareAscending(value, other) ==
    LET Rank(x) == CASE x.t = "number"    -> 0
                     [] x.t = "null"      -> 1
                     [] x.t = "undefined" -> 2
                     [] OTHER             -> 3
    IN  IF value.t = "number" /\ other.t = "number"
        THEN Sign(value.v - other.v)
        ELSE IF Rank(value) = 3 THEN 1
        ELSE Sign(Rank(value) - Rank(other))

\* _.sumBy(s, f), f given as a function on the elements of s: an undefined
\* term is skipped, the first term that is not starts the sum, and the sum
\* of no element is 0
SumBy(s, f) ==
    LET sum[i \in 0..Len(s)] ==
            IF i = 0 THEN JsUndefined
            ELSE LET result  == sum[i - 1]
                     current == f[s[i]]
                 IN  IF current.t = "undefined" THEN result
                     ELSE IF result.t = "undefined" THEN current
                     ELSE JsAdd(result, current)
    IN  IF Len(s) = 0 THEN Num(0) ELSE sum[Len(s)]

\* A stable sort of s under the comparator cmp (negative, zero, positive; a
\* function on pairs of elements of s), as Array.prototype.sort (ES2019) and
\* lodash's sortBy perform it: an element goes behind every element that does
\* not compare greater than it.
StableSort(s, cmp) ==
    LET Insert(sorted, x) ==
            LET p == Cardinality({i \in 1..Len(sorted) : cmp[sorted[i], x] <= 0})
            IN  SubSeq(sorted, 1, p) \o <<x>> \o SubSeq(sorted, p + 1, Len(sorted))
        ins[i \in 0..Len(s)] == IF i = 0 THEN <<>> ELSE Insert(ins[i - 1], s[i])
    IN  ins[Len(s)]

\* the array whose elements are f[1], ..., f[n], each computed once (what
\* Array.prototype.map returns)
Array(f) == SubSeq(f, 1, Len(f))

\* s.filter(x => keep[x])
Filter(s, keep) ==
    LET f[i \in 0..Len(s)] ==
            IF i = 0 THEN <<>>
            ELSE LET kept == f[i - 1]
                 IN  IF keep[s[i]] THEN Append(kept, s[i]) ELSE kept
    IN  f[Len(s)]

\* _.groupBy(s, key), key given as a function on the elements of s to the
\* property name (a text): the groups [key, txs] in the order Object.entries
\* and _.map walk them, which for names that are not array indices is the
\* order in which the names first occur
GroupBy(s, key) ==
    LET names[i \in 0..Len(s)] ==
            IF i = 0 THEN <<>>
            ELSE LET seen == names[i - 1]
                 IN  IF key[s[i]] \in Range(seen) THEN seen
                     ELSE Append(seen, key[s[i]])
        all == names[Len(s)]
    IN  Array([g \in 1..Len(all) |->
                [key |-> all[g],
                 txs |-> Filter(s, [x \in Range(s) |-> key[x] = all[g]])]])

\* s.slice(0, n)
Take(s, n) == SubSeq(s, 1, IF Len(s) < n THEN Len(s) ELSE n)

\* the order of the UTF-16 code units of the characters used in keys
CodeUnits == <<" ", ",", "-", ".", "/">> \o DigitChars \o UpperChars \o LowerChars
CodeUnit(c) == CHOOSE i \in 1..Len(CodeUnits) : CodeUnits[i] = c

\* a < b for two strings, the order of Array.prototype.sort() without a
\* comparator
StrLess(a, b) ==
    LET n    == IF Len(a) < Len(b) THEN Len(a) ELSE Len(b)
        diff == {i \in 1..n : a[i] # b[i]}
    IN  IF diff = {} THEN Len(a) < Len(b)
        ELSE LET i == CHOOSE j \in diff : \A k \in diff : j <= k
             IN  CodeUnit(a[i]) < CodeUnit(b[i])

(***************************************************************************)
(* Inputs of the dashboard: the rows Papa.parse returns for a CSV text     *)
(* with header, with dynamicTyping and skipEmptyLines (a numeric cell is a *)
(* number, a blank cell is null, "YYYY-MM-DD" and any other text stay      *)
(* strings).  A row has one property per column of the header.             *)
(***************************************************************************)
Dates    == {<<2024, 3, 30>>, <<2024, 3, 31>>, <<2024, 4, 1>>}
Amounts  == {-50, 100}

\* a record of a text whose header is "Booking Date,Amount (EUR)"
Tx(date, amount) ==
    ("Booking Date" :> Str(DateChars(date))) @@ ("Amount (EUR)" :> Num(amount))
Records  == {Tx(d, a) : d \in Dates, a \in Amounts}

SeqsUpTo(S, n) == UNION {[1..k -> S] : k \in 0..n}
CsvInputs == {NoCsv} \cup {CsvText(rs) : rs \in SeqsUpTo(Records, MaxRecords)}

\* the texts the parent passes to a dashboard that has already loaded one
Reloads ==
    {NoCsv,
     CsvText(<<>>),
     CsvText(<<Tx(<<2024, 3, 30>>, 100)>>),
     CsvText(<<Tx(<<2024, 3, 31>>, -50), Tx(<<2024, 4, 1>>, 100)>>)}

S_Alias1      == <<"E", "U", "G", "E", "N", "I", "O", " ", "M", "A", "R",
                   "I", "A", " ", "B", "A", "T", "T", "A", "G", "L", "I",
                   "A">>
S_Alias2      == <<"E", "u", "g", "e", "n", "i", "o", " ", "B", "a", "t",
                   "t", "a", "g", "l", "i", "a">>
S_Alias3      == <<"E", "u", "g", "e", "n", "i", "o", " ", "M", "a", "r",
                   "i", "a", " ", "B", "a", "t", "t", "a", "g", "l", "i",
                   "a">>
S_AliasLower  == <<"e", "u", "g", "e", "n", "i", "o", " ", "b", "a", "t",
                   "t", "a", "g", "l", "i", "a">>
S_MyTransfers == <<"M", "y", " ", "T", "r", "a", "n", "s", "f", "e", "r", "s">>
S_Shop        == <<"S", "h", "o", "p">>
S_EUR         == <<"E", "U", "R">>
S_USD         == <<"U", "S", "D">>
S_NotADate    == <<"n", "/", "a">>

\* a record of a text whose header is
\* "Booking Date,Partner Name,Amount (EUR),Original Currency"
Row(date, partner, amount, currency) ==
    ("Booking Date" :> date) @@ ("Partner Name" :> partner)
        @@ ("Amount (EUR)" :> amount) @@ ("Original Currency" :> currency)

\* the same records read from a text whose header lacks a column
WithoutColumn(rows, column) ==
    [i \in 1..Len(rows) |->
        [k \in (DOMAIN rows[i]) \ {column} |-> rows[i][k]]]

D_0330 == Str(DateChars(<<2024, 3, 30>>))
D_0401 == Str(DateChars(<<2024, 4, 1>>))

\* Records with a well-formed and with a blank cell in every column, the
\* spellings of the partner that the consolidation knows and one it does
\* not, the label of the consolidation itself as a partner's name, and a
\* date that is not one.
LoadRecords ==
    {Row(D_0330, Str(S_Alias2),      Num(100), JsNull),
     Row(D_0401, Str(S_AliasLower),  Num(-50), Str(S_USD)),
     Row(D_0401, Str(S_Shop),        JsNull,   Str(S_EUR)),
     Row(JsNull, Str(S_MyTransfers), Num(-50), JsNull),
     Row(D_0330, JsNull,             Num(100), Str(S_USD))}

\* The texts of the loads: no text, every text of up to MaxRecords of the
\* records above, a text with an unparseable date, and texts that lack a
\* required column (of one record, so that no sort of the effect has to
\* compare two NaN, the order of which the engine is free to choose).
LoadInputs ==
    {NoCsv}
        \cup {CsvText(rs) : rs \in SeqsUpTo(LoadRecords, MaxRecords)}
        \cup {CsvText(<<Row(Str(S_NotADate), Str(S_Shop), Num(100), JsNull)>>),
              CsvText(WithoutColumn(<<Row(D_0330, Str(S_Shop), Num(100), JsNull)>>,
                                    "Amount (EUR)")),
              CsvText(WithoutColumn(<<Row(D_0330, Str(S_Shop), Num(100), JsNull)>>,
                                    "Booking Date"))}

\* the texts the parent passes to a dashboard that has already loaded one:
\* none, one of no record, a well-formed one, one with an unparseable date
\* and one with a blank date
LoadReloads ==
    {NoCsv,
     CsvText(<<>>),
     CsvText(<<Row(D_0401, Str(S_Shop), Num(-50), Str(S_EUR)),
               Row(D_0330, Str(S_Shop), Num(100), Str(S_EUR))>>),
     CsvText(<<Row(Str(S_NotADate), Str(S_Shop), Num(100), JsNull)>>),
     CsvText(<<Row(JsNull, Str(S_Shop), Num(100), JsNull)>>)}

(***************************************************************************)
(* FinancialDashboard: the body of the useEffect, lines 29-318.            *)
(***************************************************************************)
\* new Date(x).getTime(), in hours: a text is read as a date when it is one,
\* null is the epoch, undefined and any other text give an invalid date (NaN)
DateTime(x) ==
    CASE x.t = "string" -> IF IsDateText(x.v) THEN Num(DateTextTime(x.v)) ELSE JsNaN
      [] x.t = "null"   -> Num(0)
      [] x.t = "number" -> Num(x.v \div 3600000)
      [] OTHER          -> JsNaN

\* date.toISOString().slice(0, 10) of a valid date
IsoDate(time) == DateChars(ToISODate(time.v))

BookingTime(t) == DateTime(GetField(t, "Booking Date"))
Amount(t)      == GetField(t, "Amount (EUR)")

\* line 40: _.sortBy(transactions, t => new Date(t["Booking Date"]).getTime())
sortedTransactions(transactions) ==
    StableSort(transactions,
               [a \in Range(transactions), b \in Range(transactions) |->
                   CompareAscending(BookingTime(a), BookingTime(b))])

\* lines 49-52
totalVolume(transactions) ==
    SumBy(transactions, [t \in Range(transactions) |-> MathAbs(Amount(t))])
inflows(transactions) ==
    SumBy(transactions, [t \in Range(transactions) |->
                            IF IsPositive(Amount(t)) THEN Amount(t) ELSE Num(0)])
outflows(transactions) ==
    SumBy(transactions, [t \in Range(transactions) |->
                            IF IsNegative(Amount(t)) THEN Amount(t) ELSE Num(0)])
netFlow(transactions) == JsAdd(inflows(transactions), outflows(transactions))

\* lines 56-72: the records of each month of the UTC calendar, the months in
\* ascending order
monthlyStats(transactions) ==
    LET groups == GroupBy(transactions,
                          [t \in Range(transactions) |->
                              SubSeq(IsoDate(BookingTime(t)), 1, 7)])
        stats  == Array([g \in 1..Len(groups) |->
                     LET txs == groups[g].txs
                     IN  [month   |-> Str(groups[g].key),
                          count   |-> Num(Len(txs)),
                          inflow  |-> SumBy(txs, [t \in Range(txs) |->
                                        IF IsPositive(Amount(t)) THEN Amount(t)
                                        ELSE Num(0)]),
                          outflow |-> MathAbs(SumBy(txs, [t \in Range(txs) |->
                                        IF IsNegative(Amount(t)) THEN Amount(t)
                                        ELSE Num(0)])),
                          net     |-> SumBy(txs, [t \in Range(txs) |-> Amount(t)])]])
    IN  StableSort(stats, [a \in Range(stats), b \in Range(stats) |->
                              LocaleCompare(a.month.v, b.month.v)])

\* toUpperCase
UpperChar(c) ==
    IF \E i \in 1..Len(LowerChars) : LowerChars[i] = c
    THEN UpperChars[CHOOSE i \in 1..Len(LowerChars) : LowerChars[i] = c]
    ELSE c
ToUpperCase(cs) == [i \in 1..Len(cs) |-> UpperChar(cs[i])]

\* line 74
nameVariations == <<S_Alias1, S_Alias2, S_Alias3>>

\* consolidatedSortedTransactions with the bug of comparing the partner with
\* the name variations as they are spelled
consolidatedSortedTransactions_ExactCase(sorted) ==
    Array([i \in 1..Len(sorted) |->
        LET partnerName == GetField(sorted[i], "Partner Name")
        IN  IF /\ partnerName.t = "string"
               /\ \E v \in 1..Len(nameVariations) :
                      partnerName.v = nameVariations[v]
            THEN ("Partner Name" :> Str(S_MyTransfers)) @@ sorted[i]
            ELSE sorted[i]])

\* lines 75-82: a record whose partner is one of the name variations, in any
\* case, is copied with the partner "My Transfers"
consolidatedSortedTransactions(sorted) ==
    Array([i \in 1..Len(sorted) |->
        LET partnerName == GetField(sorted[i], "Partner Name")
        IN  IF /\ partnerName.t = "string"
               /\ \E v \in 1..Len(nameVariations) :
                      ToUpperCase(partnerName.v) = ToUpperCase(nameVariations[v])
            THEN ("Partner Name" :> Str(S_MyTransfers)) @@ sorted[i]
            ELSE sorted[i]])

\* lines 86-97: the groups of the consolidated records by partner (the
\* property name of a partner that is null is "null"), by descending volume
partnerVolumes(consolidated) ==
    LET groups  == GroupBy(consolidated, [t \in Range(consolidated) |->
                                             ToChars(GetField(t, "Partner Name"))])
        entries == Array([g \in 1..Len(groups) |->
                      LET txs == groups[g].txs
                      IN  [name        |-> Str(groups[g].key),
                           count       |-> Num(Len(txs)),
                           totalVolume |-> SumBy(txs, [t \in Range(txs) |->
                                                          MathAbs(Amount(t))]),
                           totalIn     |-> SumBy(txs, [t \in Range(txs) |->
                                              IF IsPositive(Amount(t))
                                              THEN Amount(t) ELSE Num(0)]),
                           totalOut    |-> SumBy(txs, [t \in Range(txs) |->
                                              IF IsNegative(Amount(t))
                                              THEN Amount(t) ELSE Num(0)]),
                           net         |-> SumBy(txs, [t \in Range(txs) |-> Amount(t)])]])
    IN  StableSort(entries, [a \in Range(entries), b \in Range(entries) |->
                                -CompareAscending(a.totalVolume, b.totalVolume)])

\* (count / total * 100).toFixed(1), in tenths
Percentage(count, total) ==
    [t |-> "tenths", v |-> (2000 * count + total) \div (2 * total)]

\* lines 100-109: the groups of the records by original currency; the name
\* of a group is its property name, or 'EUR' when that is the empty string
currencyDistribution(transactions) ==
    LET groups  == GroupBy(transactions, [t \in Range(transactions) |->
                                             ToChars(GetField(t, "Original Currency"))])
        entries == Array([g \in 1..Len(groups) |->
                      LET currency == groups[g].key
                          txs      == groups[g].txs
                      IN  [name       |-> Str(IF Len(currency) = 0 THEN S_EUR
                                              ELSE currency),
                           count      |-> Num(Len(txs)),
                           percentage |-> Percentage(Len(txs), Len(transactions)),
                           value      |-> Num(Len(txs))]])
    IN  StableSort(entries, [a \in Range(entries), b \in Range(entries) |->
                                -CompareAscending(a.value, b.value)])

S_Presentment == <<"P", "r", "e", "s", "e", "n", "t", "m", "e", "n", "t">>
S_CardPayment == <<"C", "a", "r", "d", " ", "P", "a", "y", "m", "e", "n", "t">>
S_Refund      == S_Presentment \o <<" ", "R", "e", "f", "u", "n", "d">>
S_CardRefund  == <<"C", "a", "r", "d", " ", "R", "e", "f", "u", "n", "d">>

\* lines 115-117: the label a type is shown with
DisplayName(type) ==
    IF type = S_Presentment THEN S_CardPayment
    ELSE IF type = S_Refund THEN S_CardRefund
    ELSE type

\* the type groups named by their raw labels
typeDistribution_RawNames(transactions) ==
    LET groups  == GroupBy(transactions, [t \in Range(transactions) |->
                                             ToChars(GetField(t, "Type"))])
        entries == Array([g \in 1..Len(groups) |->
                      LET txs == groups[g].txs
                      IN  [name        |-> Str(groups[g].key),
                           count       |-> Num(Len(txs)),
                           percentage  |-> Percentage(Len(txs), Len(transactions)),
                           value       |-> SumBy(txs, [t \in Range(txs) |->
                                                          MathAbs(Amount(t))]),
                           totalAmount |-> SumBy(txs, [t \in Range(txs) |->
                                                          Amount(t)])]])
    IN  StableSort(entries, [a \in Range(entries), b \in Range(entries) |->
                                -CompareAscending(a.count, b.count)])

\* lines 112-128: the groups of the records by type, each with its display
\* name, its count, its share of all records and its sums, in descending
\* order of the count
typeDistribution(transactions) ==
    LET groups  == GroupBy(transactions, [t \in Range(transactions) |->
                                             ToChars(GetField(t, "Type"))])
        entries == Array([g \in 1..Len(groups) |->
                      LET txs == groups[g].txs
                      IN  [name        |-> Str(DisplayName(groups[g].key)),
                           count       |-> Num(Len(txs)),
                           percentage  |-> Percentage(Len(txs), Len(transactions)),
                           value       |-> SumBy(txs, [t \in Range(txs) |->
                                                          MathAbs(Amount(t))]),
                           totalAmount |-> SumBy(txs, [t \in Range(txs) |->
                                                          Amount(t)])]])
    IN  StableSort(entries, [a \in Range(entries), b \in Range(entries) |->
                                -CompareAscending(a.count, b.count)])

\* dailyBalances with the bug of keeping the first balance stored for a date
dailyBalances_KeepFirst(sorted) ==
    LET run[i \in 0..Len(sorted)] ==
            IF i = 0 THEN [balance |-> Num(0), byDate |-> <<>>]
            ELSE LET b == JsAdd(run[i - 1].balance, Amount(sorted[i]))
                     d == ToChars(GetField(sorted[i], "Booking Date"))
                 IN  [balance |-> b,
                      byDate  |-> run[i - 1].byDate @@ (d :> b)]
    IN  run[Len(sorted)].byDate

\* lines 132-139: the running balance, stored under the record's date (the
\* property name of a date that is null is "null"); a later record of the
\* same date overwrites the entry
dailyBalances(sorted) ==
    LET run[i \in 0..Len(sorted)] ==
            IF i = 0 THEN [balance |-> Num(0), byDate |-> <<>>]
            ELSE LET b == JsAdd(run[i - 1].balance, Amount(sorted[i]))
                     d == ToChars(GetField(sorted[i], "Booking Date"))
                 IN  [balance |-> b,
                      byDate  |-> (d :> b) @@ run[i - 1].byDate]
    IN  run[Len(sorted)].byDate

\* the least / greatest key of a non-empty object:
\* Object.keys(o).sort()[0] and [length - 1]
MinKey(o) == CHOOSE k \in DOMAIN o : \A j \in DOMAIN o : ~StrLess(j, k)
MaxKey(o) == CHOOSE k \in DOMAIN o : \A j \in DOMAIN o : ~StrLess(k, j)

\* line 163: currentDate.setDate(currentDate.getDate() + 1), a step of one day
\* of local time
SetDatePlusOne(zone, t) == LocalToUTC(zone, LocalTime(zone, t) + 24)

\* lines 147-164: the loop that fills the days without a transaction
RECURSIVE FillDays(_, _, _, _, _, _)
FillDays(zone, daily, currentDate, endDate, lastBalance, all) ==
    IF currentDate <= endDate
    THEN LET dateString == IsoDate(Num(currentDate))
             balance    == IF dateString \in DOMAIN daily
                           THEN daily[dateString] ELSE lastBalance
         IN  FillDays(zone, daily, SetDatePlusOne(zone, currentDate), endDate,
                      balance, (dateString :> balance) @@ all)
    ELSE all

\* lines 142-164: from the first to the last key of dailyBalances; the loop
\* does not run when one of the two is not a date (then currentDate <= endDate
\* compares with NaN) and when there is no key at all
allDailyBalances(zone, daily) ==
    IF DOMAIN daily = {} THEN <<>>
    ELSE LET startDate == DateTime(Str(MinKey(daily)))
             endDate   == DateTime(Str(MaxKey(daily)))
         IN  IF startDate.t = "nan" \/ endDate.t = "nan" THEN <<>>
             ELSE FillDays(zone, daily, startDate.v, endDate.v, Num(0), <<>>)

\* lines 252-262: Object.entries(allDailyBalances) sorted by date
formattedDailyData(all, daily) ==
    LET keys == DOMAIN all
        Nth[i \in 1..Cardinality(keys)] ==
            CHOOSE k \in keys : Cardinality({j \in keys : StrLess(j, k)}) = i - 1
    IN  Array([i \in 1..Cardinality(keys) |->
                [date           |-> Str(Nth[i]),
                 balance        |-> all[Nth[i]],
                 hasTransaction |-> Nth[i] \in DOMAIN daily]])

\* lines 188-206 and 231-244: the balances of the days of each calendar
\* month, with their mean, the months in ascending order
monthlyAvgBalances(days) ==
    LET groups  == GroupBy(days, [e \in Range(days) |-> SubSeq(e.date.v, 1, 7)])
        entries == Array([g \in 1..Len(groups) |->
                      LET balances == groups[g].txs
                      IN  [period     |-> Str(groups[g].key),
                           avgBalance |-> Ratio(SumBy(balances,
                                                      [e \in Range(balances) |->
                                                          e.balance]),
                                                Len(balances)),
                           days       |-> Num(Len(balances))]])
    IN  StableSort(entries, [a \in Range(entries), b \in Range(entries) |->
                                LocaleCompare(a.period.v, b.period.v)])

\* lines 167-179: getWeekNumber(d) of a date text d, times in hours.  The
\* text is read as UTC midnight; setHours, getDay, setDate, getFullYear and
\* new Date(year, 0, 4) work on the local time of the zone.
getWeekNumber(zone, d) ==
    LET parsed   == DateTextTime(d)
        midnight == (LocalTime(zone, parsed) \div 24) * 24
        getDay   == ((midnight \div 24) + 4) % 7
        thursday == LocalToUTC(zone, midnight + 24 * (3 - ((getDay + 6) % 7)))
        year     == CivilFromDays(LocalTime(zone, thursday) \div 24)[1]
        week1    == LocalToUTC(zone, DaysFromCivil(year, 1, 4) * 24)
        week1Day == ((LocalTime(zone, week1) \div 24) + 4) % 7
        hours    == (thursday - week1) + 24 * (((week1Day + 6) % 7) - 3)
    IN  [year |-> year, week |-> 1 + (2 * hours + 168) \div 336]

\* lines 182-184: formatWeekKey
formatWeekKey(year, week) == NatChars(year) \o <<"-", "W">> \o Pad2(week)

\* the weekly means with the sum of every week divided by seven days
weeklyAvgBalances_FullWeeks(zone, days) ==
    LET groups  == GroupBy(days, [e \in Range(days) |->
                              LET w == getWeekNumber(zone, e.date.v)
                              IN  formatWeekKey(w.year, w.week)])
        entries == Array([g \in 1..Len(groups) |->
                      LET balances == groups[g].txs
                      IN  [period     |-> Str(groups[g].key),
                           avgBalance |-> Ratio(SumBy(balances,
                                                      [e \in Range(balances) |->
                                                          e.balance]),
                                                7),
                           days       |-> Num(Len(balances))]])
    IN  StableSort(entries, [a \in Range(entries), b \in Range(entries) |->
                                LocaleCompare(a.period.v, b.period.v)])

\* lines 188-206 and 210-228: the balances of the days of each week, with
\* their mean, the weeks in ascending order of their key
weeklyAvgBalances(zone, days) ==
    LET groups  == GroupBy(days, [e \in Range(days) |->
                              LET w == getWeekNumber(zone, e.date.v)
                              IN  formatWeekKey(w.year, w.week)])
        entries == Array([g \in 1..Len(groups) |->
                      LET balances == groups[g].txs
                      IN  [period     |-> Str(groups[g].key),
                           avgBalance |-> Ratio(SumBy(balances,
                                                      [e \in Range(balances) |->
                                                          e.balance]),
                                                Len(balances)),
                           days       |-> Num(Len(balances))]])
    IN  StableSort(entries, [a \in Range(entries), b \in Range(entries) |->
                                LocaleCompare(a.period.v, b.period.v)])

\* lines 44-46 and 292: the date range of the basic statistics
dateRange(transactions) ==
    LET times == Array([i \in 1..Len(transactions) |->
                           BookingTime(transactions[i])])
        dates == StableSort(times, [a \in Range(times), b \in Range(times) |->
                                       SignOfDifference(a, b)])
    IN  [start |-> Str(IsoDate(dates[1])), end |-> Str(IsoDate(dates[Len(dates)]))]

\* The exception the body throws, by its message, or "none".  A record whose
\* date is invalid makes toISOString of line 57 throw a RangeError; with no
\* record minDate is undefined and minDate.toISOString() of line 292 throws a
\* TypeError.
ProcessingError(transactions) ==
    IF \E i \in 1..Len(transactions) : BookingTime(transactions[i]).t = "nan"
    THEN "Invalid time value"
    ELSE IF Len(transactions) = 0
    THEN "Cannot read properties of undefined (reading 'toISOString')"
    ELSE "none"

ProcessingThrows(transactions) == ProcessingError(transactions) # "none"

\* lines 290-316: the object handed to setData
ResultObject(zone, transactions) ==
    LET sorted       == sortedTransactions(transactions)
        consolidated == consolidatedSortedTransactions(sorted)
        daily        == dailyBalances(sorted)
        all          == allDailyBalances(zone, daily)
        days         == formattedDailyData(all, daily)
        sum          == SumBy(days, [e \in Range(days) |-> e.balance])
    IN  [basicStats |->
            [dateRange         |-> dateRange(transactions),
             totalTransactions |-> Num(Len(transactions)),
             totalVolume       |-> totalVolume(transactions),
             inflows           |-> inflows(transactions),
             outflows          |-> outflows(transactions),
             netFlow           |-> netFlow(transactions)],
         monthlyStats         |-> monthlyStats(transactions),
         partnerVolumes       |-> Take(partnerVolumes(consolidated), 10),
         currencyDistribution |-> Take(currencyDistribution(transactions), 6),
         typeDistribution     |-> Take(typeDistribution(transactions), 7),
         dailyBalances        |-> days,
         weeklyBalances       |-> weeklyAvgBalances(zone, days),
         monthlyBalances      |-> monthlyAvgBalances(days),
         yearlyBalance |->
            [totalDays          |-> Num(Cardinality(DOMAIN all)),
             sumOfDailyBalances |-> sum,
             yearlyAvgBalance   |-> Ratio(sum, Cardinality(DOMAIN all))],
         allTransactions      |-> consolidated]

\* lines 326-328: what a render returns, before the dashboard itself
Display(loading, err, d) ==
    IF loading THEN "loading"
    ELSE IF err # NoError THEN "error"
    ELSE IF d = NoData THEN "empty"
    ELSE "dashboard"

\* array.sort((a, b) => b[field] - a[field]) for "desc",
\* array.sort((a, b) => a[field] - b[field]) for "asc"
SortByField(array, field, direction) ==
    StableSort(array, [a \in Range(array), b \in Range(array) |->
                          IF direction = "desc"
                          THEN SignOfDifference(b[field], a[field])
                          ELSE SignOfDifference(a[field], b[field])])

\* line 1242: data.dailyBalances[data.dailyBalances.length - 1].balance reads
\* a property of undefined when the series is empty
KeyInsightsThrows(d) == Len(d.dailyBalances) = 0

\* lines 1221-1272, the Key Insights panel that every render of the dashboard
\* evaluates, whatever the tab: it calls sort on the arrays of the result
\* object, which orders them in place.  When line 1242 throws, the sorts of
\* the lines after it have not happened.
KeyInsights(d) ==
    LET byFlow    == SortByField(SortByField(SortByField(SortByField(
                         d.monthlyStats, "inflow", "desc"), "outflow", "desc"),
                         "net", "desc"), "net", "asc")
        byBalance == SortByField(SortByField(
                         d.monthlyBalances, "avgBalance", "desc"), "avgBalance", "asc")
    IN  IF KeyInsightsThrows(d)
        THEN [d EXCEPT !.monthlyStats = byFlow, !.monthlyBalances = byBalance]
        ELSE [d EXCEPT !.monthlyStats    = SortByField(byFlow, "count", "desc"),
                       !.monthlyBalances = byBalance,
                       !.partnerVolumes  = SortByField(d.partnerVolumes,
                                                       "count", "desc")]

\* line 321: "Failed to process financial data: " + err.message
FailureText(message) ==
    IF message = "Invalid time value"
    THEN "Failed to process financial data: Invalid time value"
    ELSE "Failed to process financial data: Cannot read properties of undefined (reading 'toISOString')"

\* The parent renders the dashboard with another csvData; the component
\* renders as it did before, its state being the same, and the effect of
\* line 22 (dependency [csvData]) is scheduled.
ChangeCsvData(c) ==
    /\ ~pending
    /\ shown \notin {"stale", "crashed"}
    /\ c # csvData
    /\ csvData' = c
    /\ pending' = TRUE
    /\ UNCHANGED <<tz, data, isLoading, error, shown>>
    /\ UNCHANGED tableVars

\* the effect with a catch block that does not call setError
RunEffect_SwallowsError ==
    /\ pending
    /\ pending' = FALSE
    /\ shown' = "stale"
    /\ IF ~csvData.given
       THEN /\ error' = "No CSV data provided"
            /\ isLoading' = FALSE
            /\ UNCHANGED data
       ELSE IF ProcessingThrows(csvData.rows)
       THEN /\ UNCHANGED error
            /\ isLoading' = FALSE
            /\ UNCHANGED data
       ELSE /\ data' = ResultObject(tz, csvData.rows)
            /\ isLoading' = FALSE
            /\ UNCHANGED error
    /\ UNCHANGED <<tz, csvData>>
    /\ UNCHANGED tableVars

\* the effect with a catch block that also calls setData(null)
RunEffect_ClearsData ==
    /\ pending
    /\ pending' = FALSE
    /\ shown' = "stale"
    /\ IF ~csvData.given
       THEN /\ error' = "No CSV data provided"
            /\ isLoading' = FALSE
            /\ UNCHANGED data
       ELSE IF ProcessingThrows(csvData.rows)
       THEN /\ error' = FailureText(ProcessingError(csvData.rows))
            /\ isLoading' = FALSE
            /\ data' = NoData
       ELSE /\ data' = ResultObject(tz, csvData.rows)
            /\ isLoading' = FALSE
            /\ UNCHANGED error
    /\ UNCHANGED <<tz, csvData>>
    /\ UNCHANGED tableVars

\* lines 22-324: the effect; the state it sets is rendered by the next Render
RunEffect ==
    /\ pending
    /\ pending' = FALSE
    /\ shown' = "stale"
    /\ IF ~csvData.given
       THEN /\ error' = "No CSV data provided"
            /\ isLoading' = FALSE
            /\ UNCHANGED data
       ELSE IF ProcessingThrows(csvData.rows)
       THEN /\ error' = FailureText(ProcessingError(csvData.rows))
            /\ isLoading' = FALSE
            /\ UNCHANGED data
       ELSE /\ data' = ResultObject(tz, csvData.rows)
            /\ isLoading' = FALSE
            /\ UNCHANGED error
    /\ UNCHANGED <<tz, csvData>>
    /\ UNCHANGED tableVars

\* lines 326-1285: the render that follows a change of state.  An exception
\* thrown while rendering takes the component off the page.
Render ==
    /\ shown = "stale"
    /\ IF Display(isLoading, error, data) = "dashboard"
       THEN /\ data' = KeyInsights(data)
            /\ shown' = IF KeyInsightsThrows(data) THEN "crashed" ELSE "dashboard"
       ELSE /\ shown' = Display(isLoading, error, data)
            /\ UNCHANGED data
    /\ UNCHANGED <<tz, csvData, pending, isLoading, error>>
    /\ UNCHANGED tableVars

\* lines 12-14: the state after the first render, the effect not yet run
InitDashboard ==
    /\ tz \in TimeZones
    /\ csvData \in CsvInputs
    /\ pending = TRUE
    /\ data = NoData
    /\ isLoading = TRUE
    /\ error = NoError
    /\ shown = "loading"

NoProps == [none |-> TRUE]
NoSort  == [key |-> "null", direction |-> "asc"]
NoFile  == [none |-> TRUE]
NoAlert == "null"
NoInstance == [none |-> TRUE]

InitTableIdle ==
    /\ second = NoInstance
    /\ mounted = FALSE
    /\ props = NoProps
    /\ sortConfig = NoSort
    /\ saved = NoFile
    /\ alerted = NoAlert

DashInit == InitDashboard /\ InitTableIdle
DashNext == RunEffect \/ Render \/ \E c \in Reloads : ChangeCsvData(c)
DashSpec == DashInit /\ [][DashNext]_vars

\* The same dashboard, loaded with texts that have blank cells, missing
\* columns and unparseable dates
LoadInit ==
    /\ tz \in TimeZones
    /\ csvData \in LoadInputs
    /\ pending = TRUE
    /\ data = NoData
    /\ isLoading = TRUE
    /\ error = NoError
    /\ shown = "loading"
    /\ InitTableIdle
LoadNext == RunEffect \/ Render \/ \E c \in LoadReloads : ChangeCsvData(c)
LoadSpec == LoadInit /\ [][LoadNext]_vars

\* The same dashboard, loaded with texts whose records lie around a turn of
\* the year: 2020-12-27 is the Sunday of week 52, 2020-12-28 the Monday and
\* 2021-01-03 the Sunday of week 53 of 2020, 2021-01-04 the Monday of week 1
WeekInputs ==
    LET dates == {<<2020, 12, 27>>, <<2020, 12, 28>>, <<2021, 1, 3>>, <<2021, 1, 4>>}
    IN  {CsvText(rs) : rs \in SeqsUpTo({Tx(d, 100) : d \in dates}, MaxRecords)}
WeekInit ==
    /\ tz \in TimeZones
    /\ csvData \in WeekInputs
    /\ pending = TRUE
    /\ data = NoData
    /\ isLoading = TRUE
    /\ error = NoError
    /\ shown = "loading"
    /\ InitTableIdle
WeekNext == RunEffect \/ Render
WeekSpec == WeekInit /\ [][WeekNext]_vars

\* The same dashboard, loaded with texts that have a Type column: the two
\* labels with a display name, a display name used as a label, another label
\* and a blank cell
TypeInputs ==
    LET debit  == <<"D", "i", "r", "e", "c", "t", " ", "D", "e", "b", "i", "t">>
        labels == {Str(S_Presentment), Str(S_Refund), Str(S_CardPayment),
                   Str(debit), JsNull}
        typed  == {Tx(<<2024, 3, 30>>, -50) @@ ("Type" :> l) : l \in labels}
    IN  {CsvText(rs) : rs \in SeqsUpTo(typed, MaxRecords + 1)}
TypeInit ==
    /\ tz \in TimeZones
    /\ csvData \in TypeInputs
    /\ pending = TRUE
    /\ data = NoData
    /\ isLoading = TRUE
    /\ error = NoError
    /\ shown = "loading"
    /\ InitTableIdle
TypeNext == RunEffect \/ Render
TypeSpec == TypeInit /\ [][TypeNext]_vars

(***************************************************************************)
(* SortableTable                                                           *)
(***************************************************************************)
Column(key, header, type, render) ==
    [key |-> key, header |-> header, type |-> type, render |-> render]

\* line 53 / 88: columns.find(col => col.key === key) || {}, then
\* columnConfig.type || 'string'
ColumnType(columns, key) ==
    IF \E i \in 1..Len(columns) : columns[i].key = key
    THEN LET i == CHOOSE j \in 1..Len(columns) :
                      /\ columns[j].key = key
                      /\ \A k \in 1..(j - 1) : columns[k].key # key
         IN  IF columns[i].type = "undefined" THEN "string" ELSE columns[i].type
    ELSE "string"

\* lines 57-80: the comparator handed to Array.prototype.sort.  The time of a
\* text that is no date is NaN, and so is the difference; a comparator result
\* of NaN is read by the sort as 0.
Compare(type, cfg, a, b) ==
    LET aValue == GetField(a, cfg.key)
        bValue == GetField(b, cfg.key)
    IN  IF type = "number"
        THEN LET an == IF Truthy(aValue) THEN aValue.v ELSE 0
                 bn == IF Truthy(bValue) THEN bValue.v ELSE 0
             IN  IF cfg.direction = "asc" THEN an - bn ELSE bn - an
        ELSE IF type = "date"
        THEN LET dateA == IF Truthy(aValue) THEN DateTime(aValue) ELSE Num(0)
                 dateB == IF Truthy(bValue) THEN DateTime(bValue) ELSE Num(0)
             IN  IF dateA.t = "nan" \/ dateB.t = "nan" THEN 0
                 ELSE IF cfg.direction = "asc" THEN dateA.v - dateB.v
                 ELSE dateB.v - dateA.v
        ELSE LET strA == ToLowerCase(ToChars(IF Truthy(aValue) THEN aValue ELSE Str(<<>>)))
                 strB == ToLowerCase(ToChars(IF Truthy(bValue) THEN bValue ELSE Str(<<>>)))
             IN  IF cfg.direction = "asc"
                 THEN LocaleCompare(strA, strB) ELSE LocaleCompare(strB, strA)

\* sortedData with the bug of sorting ascending and reversing for descending
sortedData_ReverseForDesc(rows, columns, cfg) ==
    IF cfg.key = "null" THEN rows
    ELSE LET asc == StableSort(rows,
                       [a \in Range(rows), b \in Range(rows) |->
                           Compare(ColumnType(columns, cfg.key),
                                   [key |-> cfg.key, direction |-> "asc"], a, b)])
         IN  IF cfg.direction = "asc" THEN asc
             ELSE [i \in 1..Len(asc) |-> asc[Len(asc) + 1 - i]]

\* sortedData with the bug of a sort that moves a row in front of the rows
\* it ties with
sortedData_TiesInFront(rows, columns, cfg) ==
    IF cfg.key = "null" THEN rows
    ELSE StableSort(rows, [a \in Range(rows), b \in Range(rows) |->
                              LET c == Compare(ColumnType(columns, cfg.key), cfg, a, b)
                              IN  IF c = 0 THEN 1 ELSE c])

\* lines 48-83: the sorted view
sortedData(rows, columns, cfg) ==
    IF cfg.key = "null" THEN rows
    ELSE StableSort(rows, [a \in Range(rows), b \in Range(rows) |->
                              Compare(ColumnType(columns, cfg.key), cfg, a, b)])

\* SortUpdater with the bug of a number or date column that stays descending
\* when activated again
SortUpdater_NoToggle(columns, prevConfig, key) ==
    LET type == ColumnType(columns, key)
    IN  IF prevConfig.key = key
        THEN IF type = "number" \/ type = "date"
             THEN [key |-> key, direction |-> "desc"]
             ELSE [key |-> key,
                   direction |-> IF prevConfig.direction = "asc" THEN "desc" ELSE "asc"]
        ELSE IF type = "number" \/ type = "date"
             THEN [key |-> key, direction |-> "desc"]
             ELSE [key |-> key, direction |-> "asc"]

\* SortUpdater with the bug of never leaving the column sorted first
SortUpdater_FirstKeyOnly(columns, prevConfig, key) ==
    IF prevConfig.key = "null"
    THEN [key |-> key,
          direction |-> IF ColumnType(columns, key) \in {"number", "date"}
                        THEN "desc" ELSE "asc"]
    ELSE [key |-> prevConfig.key,
          direction |-> IF prevConfig.direction = "asc" THEN "desc" ELSE "asc"]

\* lines 91-117: the updater requestSort(key) hands to setSortConfig
SortUpdater(columns, prevConfig, key) ==
    LET type == ColumnType(columns, key)
    IN  IF prevConfig.key = key
        THEN IF type = "number" \/ type = "date"
             THEN [key |-> key,
                   direction |-> IF prevConfig.direction = "desc" THEN "asc" ELSE "desc"]
             ELSE [key |-> key,
                   direction |-> IF prevConfig.direction = "asc" THEN "desc" ELSE "asc"]
        ELSE IF type = "number" \/ type = "date"
             THEN [key |-> key, direction |-> "desc"]
             ELSE [key |-> key, direction |-> "asc"]

\* parseFloat(x): the number a leading run of digits spells, else NaN
ParseFloat(x) ==
    CASE x.t = "number" -> x
      [] x.t = "string" ->
            LET n == Cardinality({i \in 1..Len(x.v) :
                                      \A j \in 1..i : IsDigit(x.v[j])})
            IN  IF n = 0 THEN JsNaN ELSE ToNumber(Str(SubSeq(x.v, 1, n)))
      [] OTHER -> JsNaN

\* FinancialDashboard.js line 331: the euro sign (written "EUR" here, as one
\* character) followed by parseFloat(value).toFixed(2)
formatCurrency(value) ==
    LET f == ParseFloat(value)
    IN  Str(<<"EUR">> \o (IF f.t = "nan" THEN ToChars(f)
                          ELSE IntChars(f.v) \o <<".", "0", "0">>))


\* The cell renderers the dashboard passes in `render`, applied to whatever
\* argument the table hands them:
\*   "rowCurrency"  (row) => formatCurrency(row.<key>)     lines 544, 634, 642,
\*                                                         1179, 1187
\*   "rowMinus"     (row) => `-${formatCurrency(row.<key>)}`      line 572
\*   "rowAbs"       (row) => formatCurrency(Math.abs(row.<key>))  line 1195
\*   "rowSpan"      (row) => <span color>{formatCurrency(row.<key>)}</span>
\*                                                         lines 1203-1207
\*   "valueRename"  (value) => 'Card Payment' | ...        lines 769-774
\*   "valueSpan"    (value) => <span color>{formatCurrency(value)}</span>
\*                                                         lines 780-784
ApplyRender(column, arg) ==
    CASE column.render = "rowCurrency" ->
            LET v == GetProp(arg, column.key)
            IN  IF v.t = "throw" THEN JsThrow ELSE formatCurrency(v)
      [] column.render = "rowMinus" ->
            LET v == GetProp(arg, column.key)
            IN  IF v.t = "throw" THEN JsThrow
                ELSE Str(<<"-">> \o formatCurrency(v).v)
      [] column.render = "rowAbs" ->
            LET v == GetProp(arg, column.key)
            IN  IF v.t = "throw" THEN JsThrow ELSE formatCurrency(MathAbs(v))
      [] column.render = "rowSpan" ->
            LET v == GetProp(arg, column.key)
            IN  IF v.t = "throw" THEN JsThrow
                ELSE [t     |-> "span",
                      color |-> IF IsNegative(v) THEN "#F44336" ELSE "#4CAF50",
                      child |-> formatCurrency(v)]
      [] column.render = "valueRename" ->
            IF arg = Str(S_Presentment) THEN Str(S_CardPayment)
            ELSE IF arg = Str(S_Refund) THEN Str(S_CardRefund)
            ELSE arg
      [] column.render = "valueSpan" ->
            [t     |-> "span",
             color |-> IF arg.t = "number" /\ arg.v < 0 THEN "#F44336" ELSE "#4CAF50",
             child |-> formatCurrency(arg)]

\* line 236 (RowRenderer) and line 305 (the plain body): the content of a cell
RenderCell(virtualized, column, row) ==
    IF column.render = "none" THEN GetField(row, column.key)
    ELSE IF virtualized THEN ApplyRender(column, GetField(row, column.key))
    ELSE ApplyRender(column, Obj(row))

\* lines 226 / 296: the row's class, `${rowClassName} ${getRowClassName(row)}`;
\* getRowClassName is the default () => '' or, for "netSign", line 1210:
\* (row) => row.net < 0 ? "bg-red-50" : "bg-green-50"
RowClass(p, row) ==
    <<p.rowClassName,
      IF p.getRowClassName = "netSign"
      THEN (IF IsNegative(GetField(row, "net")) THEN "bg-red-50" ELSE "bg-green-50")
      ELSE "">>

RenderRow(virtualized, p, row) ==
    [className |-> RowClass(p, row),
     cells     |-> [j \in 1..Len(p.columns) |->
                        RenderCell(virtualized, p.columns[j], row)]]

\* react-window's FixedSizeList at scroll offset 0 renders the rows that
\* intersect the viewport: the first ceil(height / itemSize) of them
VisibleCount(p, n) ==
    LET fit == (p.virtualHeight + p.rowHeight - 1) \div p.rowHeight
    IN  IF n < fit THEN n ELSE fit

\* lines 290-323: the rows of the body, in the order rendered.  The render
\* throws when a renderer throws, and when a cell's content is a plain object,
\* which React refuses as a child.
RenderBody(virtualized, p, cfg) ==
    LET view  == sortedData(p.data, p.columns, cfg)
        count == IF virtualized THEN VisibleCount(p, Len(view)) ELSE Len(view)
        out   == [i \in 1..count |-> RenderRow(virtualized, p, view[i])]
    IN  IF \E i \in 1..count : \E j \in 1..Len(p.columns) :
               out[i].cells[j].t \in {"throw", "object"}
        THEN [threw |-> TRUE, rows |-> <<>>]
        ELSE [threw |-> FALSE, rows |-> out]

\* lines 143-167: one field of the delimited text
CsvCell(col, row) ==
    LET raw   == GetField(row, col.key)
        value == IF col.render # "none"
                 THEN IF col.type = "number" THEN ToNumber(raw)
                      ELSE IF col.type = "date" /\ Truthy(raw)
                      THEN IF raw.t = "string" /\ IsDateText(raw.v)
                           THEN Str(DateChars(ToISODate(DateTextTime(raw.v))))
                           ELSE JsThrow
                      ELSE raw
                 ELSE raw
    IN  IF value.t = "throw" THEN JsThrow
        ELSE IF IsNullish(value) THEN Str(<<>>)
        ELSE IF value.t = "string" /\ \E i \in 1..Len(value.v) : value.v[i] = ","
        THEN Str(<<"\"">> \o value.v \o <<"\"">>)
        ELSE Str(ToChars(value))

\* CsvContent with the bug of writing the rows in the order of the input
CsvContent_InputOrder(p, cfg) ==
    [header |-> [j \in 1..Len(p.columns) |-> p.columns[j].header],
     rows   |-> [i \in 1..Len(p.data) |->
                    [j \in 1..Len(p.columns) |-> CsvCell(p.columns[j], p.data[i])]]]

\* lines 140-170: the header line and one line per row of the sorted view;
\* join(',') and join('\n') are kept as the structure of the content
CsvContent(p, cfg) ==
    LET view == sortedData(p.data, p.columns, cfg)
    IN  [header |-> [j \in 1..Len(p.columns) |-> p.columns[j].header],
         rows   |-> [i \in 1..Len(view) |->
                        [j \in 1..Len(p.columns) |-> CsvCell(p.columns[j], view[i])]]]

CsvThrows(p, cfg) ==
    LET c == CsvContent(p, cfg)
    IN  \E i \in 1..Len(c.rows) : \E j \in 1..Len(p.columns) : c.rows[i][j].t = "throw"

\* lines 197-201 and 205: the object of one row, keyed by header (a later
\* column of the same header overwrites an earlier one), as JSON.stringify
\* writes it: an undefined value drops its key, NaN becomes null
JsonRow(columns, row) ==
    LET headers == {columns[j].header : j \in 1..Len(columns)}
        ValueOf(h) ==
            LET j == CHOOSE k \in 1..Len(columns) :
                         /\ columns[k].header = h
                         /\ \A m \in (k + 1)..Len(columns) : columns[m].header # h
            IN  GetField(row, columns[j].key)
    IN  [h \in {g \in headers : ValueOf(g).t # "undefined"} |->
            IF ValueOf(h).t = "nan" THEN JsNull ELSE ValueOf(h)]

JsonContent(p, cfg) ==
    LET view == sortedData(p.data, p.columns, cfg)
    IN  [i \in 1..Len(view) |-> JsonRow(p.columns, view[i])]

\* lines 28-45: a table is mounted with props p; useState gives the sort state
Mount(p) ==
    /\ ~mounted
    /\ mounted' = TRUE
    /\ props' = p
    /\ sortConfig' = [key |-> "null", direction |-> "asc"]
    /\ UNCHANGED <<saved, alerted, second>>
    /\ UNCHANGED dashVars

\* requestSort over a sortedData that sorts `data` itself, not a copy of it
requestSort_SortsInPlace(key) ==
    /\ mounted
    /\ \E j \in 1..Len(props.columns) : props.columns[j].key = key
    /\ sortConfig' = SortUpdater(props.columns, sortConfig, key)
    /\ props' = [props EXCEPT !.data = sortedData(props.data, props.columns, sortConfig')]
    /\ UNCHANGED <<mounted, saved, alerted, second>>
    /\ UNCHANGED dashVars

\* requestSort of a table whose sort state is kept in one place for all
\* instances
requestSort_SharedState(key) ==
    /\ mounted
    /\ \E j \in 1..Len(props.columns) : props.columns[j].key = key
    /\ sortConfig' = SortUpdater(props.columns, sortConfig, key)
    /\ second' = IF second = NoInstance THEN second
                ELSE [second EXCEPT !.sortConfig = sortConfig']
    /\ UNCHANGED <<mounted, props, saved, alerted>>
    /\ UNCHANGED dashVars

\* lines 86-118, the click handler of line 279
requestSort(key) ==
    /\ mounted
    /\ \E j \in 1..Len(props.columns) : props.columns[j].key = key
    /\ sortConfig' = SortUpdater(props.columns, sortConfig, key)
    /\ UNCHANGED <<mounted, props, saved, alerted, second>>
    /\ UNCHANGED dashVars

\* lines 132-184
exportToCSV ==
    /\ mounted
    /\ IF Len(props.data) = 0
       THEN /\ alerted' = "No data to export"
            /\ UNCHANGED saved
       ELSE IF CsvThrows(props, sortConfig)
       THEN /\ alerted' = "Failed to export data. See console for details."
            /\ UNCHANGED saved
       ELSE /\ saved' = [kind    |-> "text/csv",
                         table   |-> props.tableName,
                         content |-> CsvContent(props, sortConfig)]
            /\ UNCHANGED alerted
    /\ UNCHANGED <<mounted, props, sortConfig, second>>
    /\ UNCHANGED dashVars

\* exportToJSON without the guard of lines 189-192
exportToJSON_SavesEmpty ==
    /\ mounted
    /\ saved' = [kind    |-> "application/json",
                 table   |-> props.tableName,
                 content |-> JsonContent(props, sortConfig)]
    /\ UNCHANGED alerted
    /\ UNCHANGED <<mounted, props, sortConfig, second>>
    /\ UNCHANGED dashVars

\* lines 187-216
exportToJSON ==
    /\ mounted
    /\ IF Len(props.data) = 0
       THEN /\ alerted' = "No data to export"
            /\ UNCHANGED saved
       ELSE /\ saved' = [kind    |-> "application/json",
                         table   |-> props.tableName,
                         content |-> JsonContent(props, sortConfig)]
            /\ UNCHANGED alerted
    /\ UNCHANGED <<mounted, props, sortConfig, second>>
    /\ UNCHANGED dashVars

\* The handlers of the second instance: lines 86-118, 132-184 and 187-216
\* with that instance's props and sort state.  alert and saveAs are the
\* browser's, one for all instances.
requestSortOther(key) ==
    /\ second # NoInstance
    /\ \E j \in 1..Len(second.props.columns) : second.props.columns[j].key = key
    /\ second' = [second EXCEPT
                    !.sortConfig = SortUpdater(second.props.columns,
                                               second.sortConfig, key)]
    /\ UNCHANGED <<mounted, props, sortConfig, saved, alerted>>
    /\ UNCHANGED dashVars

exportToCSVOther ==
    /\ second # NoInstance
    /\ IF Len(second.props.data) = 0
       THEN /\ alerted' = "No data to export"
            /\ UNCHANGED saved
       ELSE IF CsvThrows(second.props, second.sortConfig)
       THEN /\ alerted' = "Failed to export data. See console for details."
            /\ UNCHANGED saved
       ELSE /\ saved' = [kind    |-> "text/csv",
                         table   |-> second.props.tableName,
                         content |-> CsvContent(second.props, second.sortConfig)]
            /\ UNCHANGED alerted
    /\ UNCHANGED <<mounted, props, sortConfig, second>>
    /\ UNCHANGED dashVars

exportToJSONOther ==
    /\ second # NoInstance
    /\ IF Len(second.props.data) = 0
       THEN /\ alerted' = "No data to export"
            /\ UNCHANGED saved
       ELSE /\ saved' = [kind    |-> "application/json",
                         table   |-> second.props.tableName,
                         content |-> JsonContent(second.props, second.sortConfig)]
            /\ UNCHANGED alerted
    /\ UNCHANGED <<mounted, props, sortConfig, second>>
    /\ UNCHANGED dashVars

(***************************************************************************)
(* The tables the dashboard mounts, and the rows handed to them            *)
(***************************************************************************)
\* FinancialDashboard.js lines 524-547: Largest Inflows
InflowColumns ==
    <<Column("name", "Partner", "string", "none"),
      Column("date", "Date", "date", "none"),
      Column("value", "Amount", "number", "rowCurrency")>>
InflowRow(name, date, value) ==
    ("name" :> name) @@ ("date" :> date) @@ ("value" :> value)
InflowRows ==
    {InflowRow(Str(<<"b">>), D_0401, Num(100)),
     InflowRow(Str(<<"B">>), D_0401, Num(100)),
     InflowRow(JsNull, D_0330, Num(50))}
InflowProps(rows) ==
    [data |-> rows, columns |-> InflowColumns, tableName |-> "Largest Inflows",
     rowClassName |-> "", getRowClassName |-> "default",
     useVirtualization |-> FALSE, virtualHeight |-> 400, rowHeight |-> 35,
     defaultSortKey |-> "undefined", defaultSortDirection |-> "undefined"]

\* FinancialDashboard.js lines 763-793: All Transactions
AllColumns ==
    <<Column("Booking Date", "Date", "date", "none"),
      Column("Partner Name", "Partner", "string", "none"),
      Column("Payment Reference", "Reference", "string", "none"),
      Column("Type", "Type", "string", "valueRename"),
      Column("Amount (EUR)", "Amount (EUR)", "number", "valueSpan")>>
AllRow(date, partner, reference, type, amount) ==
    ("Booking Date" :> date) @@ ("Partner Name" :> partner)
        @@ ("Payment Reference" :> reference)
        @@ ("Type" :> type) @@ ("Amount (EUR)" :> amount)
AllRows ==
    {AllRow(D_0401, Str(<<"a", ",", "b">>), Str(<<"x">>), Str(S_Presentment), Num(0)),
     AllRow(D_0401, Str(<<"A", ",", "B">>), Str(<<"x">>), Str(S_Presentment), JsNull),
     AllRow(D_0330, JsNull, Str(<<"y">>), Str(<<"x">>), Num(-50))}
AllProps(rows) ==
    [data |-> rows, columns |-> AllColumns, tableName |-> "All_Transactions",
     rowClassName |-> "", getRowClassName |-> "default",
     useVirtualization |-> TRUE, virtualHeight |-> 600, rowHeight |-> 40,
     defaultSortKey |-> "Booking Date", defaultSortDirection |-> "desc"]

\* FinancialDashboard.js lines 1156-1211: Top Partners, the rows of
\* data.partnerVolumes
PartnerColumns ==
    <<Column("name", "Partner", "string", "none"),
      Column("count", "Transactions", "number", "none"),
      Column("totalVolume", "Total Volume", "number", "rowCurrency"),
      Column("totalIn", "Total Inflows", "number", "rowCurrency"),
      Column("totalOut", "Total Outflows", "number", "rowAbs"),
      Column("net", "Net Flow", "number", "rowSpan")>>
\* the partners of two records of 100 and -50, and of one record whose
\* amount is missing (a line of fewer cells than the header, or a header
\* without the amount), as partnerVolumes computes them
PartnerRows ==
    {[name |-> Str(S_MyTransfers), count |-> Num(2), totalVolume |-> Num(150),
      totalIn |-> Num(100), totalOut |-> Num(-50), net |-> Num(50)],
     [name |-> Str(S_Shop), count |-> Num(1), totalVolume |-> JsNaN,
      totalIn |-> Num(0), totalOut |-> Num(0), net |-> JsUndefined]}
PartnerProps(rows) ==
    [data |-> rows, columns |-> PartnerColumns, tableName |-> "Top Partners",
     rowClassName |-> "", getRowClassName |-> "netSign",
     useVirtualization |-> FALSE, virtualHeight |-> 400, rowHeight |-> 35,
     defaultSortKey |-> "undefined", defaultSortDirection |-> "undefined"]

\* SortableTable.js lines 5-40: a table of some other caller, with one date
\* column and the defaults of every optional prop; its rows hold a date and a
\* text that is no date
CallerColumns == <<Column("date", "Date", "date", "none")>>
CallerRows == {("date" :> D_0330), ("date" :> Str(S_NotADate))}
CallerProps(rows) ==
    [data |-> rows, columns |-> CallerColumns, tableName |-> "Table",
     rowClassName |-> "", getRowClassName |-> "default",
     useVirtualization |-> FALSE, virtualHeight |-> 400, rowHeight |-> 35,
     defaultSortKey |-> "undefined", defaultSortDirection |-> "undefined"]

TableProps ==
    {InflowProps(rows) : rows \in SeqsUpTo(InflowRows, MaxRows)}
        \cup {AllProps(rows) : rows \in SeqsUpTo(AllRows, MaxRows)}
        \cup {PartnerProps(rows) : rows \in SeqsUpTo(PartnerRows, MaxRows)}
        \cup {CallerProps(rows) : rows \in SeqsUpTo(CallerRows, MaxRows)}

ColumnKeys == {"name", "date", "value", "Booking Date", "Partner Name",
               "Payment Reference", "Type", "Amount (EUR)",
               "count", "totalVolume", "totalIn", "totalOut", "net"}

TableInit ==
    /\ tz = UTCZone
    /\ csvData = NoCsv
    /\ pending = TRUE
    /\ data = NoData
    /\ isLoading = TRUE
    /\ error = NoError
    /\ shown = "loading"
    /\ InitTableIdle
TableNext ==
    \/ \E p \in TableProps : Mount(p)
    \/ \E key \in ColumnKeys : requestSort(key)
    \/ exportToCSV
    \/ exportToJSON
TableSpec == TableInit /\ [][TableNext]_vars

\* FinancialDashboard.js lines 552-575: Largest Outflows, mounted beside
\* Largest Inflows in the same render
OutflowColumns ==
    <<Column("name", "Partner", "string", "none"),
      Column("date", "Date", "date", "none"),
      Column("value", "Amount", "number", "rowMinus")>>
OutflowProps(rows) ==
    [data |-> rows, columns |-> OutflowColumns, tableName |-> "Largest Outflows",
     rowClassName |-> "", getRowClassName |-> "default",
     useVirtualization |-> FALSE, virtualHeight |-> 400, rowHeight |-> 35,
     defaultSortKey |-> "undefined", defaultSortDirection |-> "undefined"]

\* the rows of the two tables, here one collection passed to both
PairRows == {InflowRow(Str(<<"b">>), D_0401, Num(100)),
             InflowRow(JsNull, D_0330, Num(50))}

\* Two instances just mounted: each has its own useState (lines 42-45)
PairInit ==
    /\ tz = UTCZone
    /\ csvData = NoCsv
    /\ pending = TRUE
    /\ data = NoData
    /\ isLoading = TRUE
    /\ error = NoError
    /\ shown = "loading"
    /\ mounted = TRUE
    /\ sortConfig = NoSort
    /\ saved = NoFile
    /\ alerted = NoAlert
    /\ \E rows \in SeqsUpTo(PairRows, MaxRows) :
          /\ props = InflowProps(rows)
          /\ second = [props |-> OutflowProps(rows), sortConfig |-> NoSort]
PairNext ==
    \/ \E key \in {"name", "date", "value"} : requestSort(key)
    \/ \E key \in {"name", "date", "value"} : requestSortOther(key)
    \/ exportToCSV
    \/ exportToJSON
    \/ exportToCSVOther
    \/ exportToJSONOther
PairSpec == PairInit /\ [][PairNext]_vars

(***************************************************************************)
(* Claims about the balance calculation                                    *)
(***************************************************************************)
\* The effect has run for the current csvData and stored its result object.
Loaded == ~pending /\ csvData.given /\ Len(csvData.rows) > 0

\* the first and the last booking date of records that all have one
FirstDate(rows) ==
    CHOOSE d \in {rows[i]["Booking Date"] : i \in 1..Len(rows)} :
        \A i \in 1..Len(rows) : ~StrLess(rows[i]["Booking Date"].v, d.v)
LastDate(rows) ==
    CHOOSE d \in {rows[i]["Booking Date"] : i \in 1..Len(rows)} :
        \A i \in 1..Len(rows) : ~StrLess(d.v, rows[i]["Booking Date"].v)
DayNumber(d) == DateTextTime(d.v) \div 24

\* the sum of the integers f assigns to the elements of s
SumOf(s, f) ==
    LET sum[i \in 0..Len(s)] == IF i = 0 THEN 0 ELSE sum[i - 1] + f[s[i]]
    IN  sum[Len(s)]

\* the sum of the signed amounts of the records booked on or before day d
BalanceUpTo(rows, d) ==
    SumOf(rows, [t \in Range(rows) |-> IF StrLess(d.v, t["Booking Date"].v)
                                        THEN 0 ELSE t["Amount (EUR)"].v])

\* C1: for a non-empty input with parseable dates the stored statistics have
\* netFlow = inflows + outflows, inflows the sum of the positive and outflows
\* the sum of the negative amounts, and netFlow is the balance of the last
\* entry of the gap-filled daily series.
C1_NetFlowIsLastBalance ==
    Loaded =>
        LET st == data.basicStats
            s  == data.dailyBalances
        IN  /\ st.netFlow = Num(st.inflows.v + st.outflows.v)
            /\ st.inflows.v >= 0 /\ st.outflows.v <= 0
            /\ st.netFlow = Num(BalanceUpTo(csvData.rows, LastDate(csvData.rows)))
            /\ Len(s) > 0
            /\ st.netFlow = s[Len(s)].balance

\* C2: the daily series has (last date - first date in days) + 1 entries, from
\* the first to the last transaction date, each one day after the previous.
C2_SeriesCoversEveryDay ==
    Loaded =>
        LET s     == data.dailyBalances
            first == FirstDate(csvData.rows)
            last  == LastDate(csvData.rows)
        IN  /\ Len(s) = DayNumber(last) - DayNumber(first) + 1
            /\ s[1].date = first
            /\ s[Len(s)].date = last
            /\ \A i \in 1..(Len(s) - 1) :
                   DayNumber(s[i + 1].date) = DayNumber(s[i].date) + 1

\* C3: every entry of the daily series carries the sum of the signed amounts
\* of all records booked on or before its day (the balance after the last
\* record of a day with several, the previous day's balance on a day with none).
C3_BalanceIsSumUpToDay ==
    Loaded =>
        LET s == data.dailyBalances
        IN  \A i \in 1..Len(s) :
                s[i].balance = Num(BalanceUpTo(csvData.rows, s[i].date))

\* C3 witness: +100 on 2024-03-30 and -50 on 2024-04-01 give 100, 100, 50,
\* the middle day having no record.
C3_Witness ==
    /\ Loaded
    /\ csvData.rows = <<Tx(<<2024, 3, 30>>, 100), Tx(<<2024, 4, 1>>, -50)>>
    /\ Len(data.dailyBalances) = 3
    /\ data.dailyBalances[1].balance = Num(100)
    /\ data.dailyBalances[2].balance = Num(100)
    /\ ~data.dailyBalances[2].hasTransaction
    /\ data.dailyBalances[3].balance = Num(50)

(***************************************************************************)
(* Claims about the table                                                  *)
(***************************************************************************)
Opposite(direction) == IF direction = "asc" THEN "desc" ELSE "asc"
DefaultDirection(type) ==
    IF type \in {"number", "date"} THEN "desc" ELSE "asc"
TypeOfKey(key) ==
    LET j == CHOOSE k \in 1..Len(props.columns) : props.columns[k].key = key
    IN  props.columns[j].type
KeysOf(p) == {p.columns[j].key : j \in 1..Len(p.columns)}

\* C4: activating the header of the active sort column flips the direction, so
\* two activations return to the direction before them; activating another
\* column makes it the active key, descending for a number or date column
\* and ascending for a string column, whatever the state before.  Stated of
\* the updater in every reachable state, and of every step that changes the
\* sort state.
C4_SortToggling ==
    /\ [](mounted =>
            \A key \in KeysOf(props) :
                LET once  == SortUpdater(props.columns, sortConfig, key)
                    twice == SortUpdater(props.columns, once, key)
                IN  /\ once.key = key
                    /\ twice.key = key
                    /\ twice.direction = Opposite(once.direction)
                    /\ IF sortConfig.key = key
                       THEN once.direction = Opposite(sortConfig.direction)
                            /\ twice = sortConfig
                       ELSE once.direction = DefaultDirection(TypeOfKey(key)))
    /\ [][(mounted /\ sortConfig' # sortConfig) =>
            /\ sortConfig'.key \in KeysOf(props)
            /\ IF sortConfig'.key = sortConfig.key
               THEN sortConfig'.direction = Opposite(sortConfig.direction)
               ELSE sortConfig'.direction = DefaultDirection(TypeOfKey(sortConfig'.key))
          ]_vars

\* C4 witness: a number column sorted ascending, which only a second
\* activation of that column reaches
C4_Witness ==
    /\ mounted
    /\ sortConfig = [key |-> "value", direction |-> "asc"]

\* the sort states that one or more header activations lead to from cfg
RECURSIVE ActivationClosure(_, _)
ActivationClosure(p, S) ==
    LET T == S \cup {SortUpdater(p.columns, c, k) : c \in S, k \in KeysOf(p)}
    IN  IF T = S THEN S ELSE ActivationClosure(p, T)
ReachableByActivation(p, cfg) ==
    ActivationClosure(p, {SortUpdater(p.columns, cfg, k) : k \in KeysOf(p)})
SortedStates(p) ==
    {[key |-> k, direction |-> d] : k \in KeysOf(p), d \in {"asc", "desc"}}

\* C5 as claimed: from every reachable sort state some activation is possible
\* and no-sort, K ascending and K descending are all reachable again.
C5_AllThreeReachable ==
    mounted =>
        LET reach == ReachableByActivation(props, sortConfig)
        IN  /\ reach # {}
            /\ NoSort \in reach
            /\ SortedStates(props) \subseteq reach

\* C5 as amended: from every reachable sort state some activation is possible
\* and exactly the states K ascending and K descending, for every column K,
\* are reachable by header activations; no-sort is never reached again.
C5_SortedStatesReachable ==
    mounted =>
        LET reach == ReachableByActivation(props, sortConfig)
        IN  /\ reach # {}
            /\ reach = SortedStates(props)
            /\ sortConfig \in SortedStates(props) \cup {NoSort}

\* C5 witness: a sorted state, reached by activations, from which the others
\* are to be reached
C5_Witness ==
    /\ mounted
    /\ sortConfig = [key |-> "Partner Name", direction |-> "desc"]

\* C6: a table mounts unsorted when the caller passes no default sort, and
\* with exactly the caller's default key and direction when it passes one, the
\* first rendered rows being in that order.
C6_InitialSortIsDefault ==
    [][(~mounted /\ mounted') =>
          IF props'.defaultSortKey = "undefined"
          THEN sortConfig'.key = "null"
          ELSE LET default == [key       |-> props'.defaultSortKey,
                               direction |-> props'.defaultSortDirection]
               IN  /\ sortConfig' = default
                   /\ sortedData(props'.data, props'.columns, sortConfig')
                        = sortedData(props'.data, props'.columns, default)
      ]_vars

\* C7: in the sorted view, for every column, type and direction, two rows
\* whose sort values compare equal keep the relative order they have in the
\* input rows.
C7_SortIsStable ==
    (mounted /\ sortConfig.key # "null") =>
        LET view == sortedData(props.data, props.columns, sortConfig)
            type == ColumnType(props.columns, sortConfig.key)
            rows == {props.data[i] : i \in 1..Len(props.data)}
        IN  \A r, q \in rows :
                (r # q /\ Compare(type, sortConfig, r, q) = 0) =>
                    SelectSeq(view, LAMBDA x : x \in {r, q})
                        = SelectSeq(props.data, LAMBDA x : x \in {r, q})

\* C7 witness: a descending sort that moved rows and kept two different rows
\* of equal sort value in their input order
C7_Witness ==
    /\ mounted
    /\ sortConfig.key # "null"
    /\ sortConfig.direction = "desc"
    /\ LET view == sortedData(props.data, props.columns, sortConfig)
           type == ColumnType(props.columns, sortConfig.key)
       IN  /\ view # props.data
           /\ \E i, j \in 1..Len(view) :
                 /\ i < j
                 /\ view[i] # view[j]
                 /\ Compare(type, sortConfig, view[i], view[j]) = 0

\* C8: with a viewport that covers all rows, the virtualized and the plain
\* rendering of the same rows, columns and sort state give the same rows of
\* cell values, custom cell renderers included.
C8_RenderModesAgree ==
    (mounted /\ VisibleCount(props, Len(props.data)) = Len(props.data)) =>
        RenderBody(TRUE, props, sortConfig) = RenderBody(FALSE, props, sortConfig)

\* C9: every export writes one record per row of the collection, in the order
\* of the sorted view at the time of the export.
C9_ExportFollowsSortedView ==
    [][(saved' # saved) =>
          LET view == sortedData(props.data, props.columns, sortConfig)
              file == saved'.content
          IN  IF saved'.kind = "text/csv"
              THEN /\ Len(file.rows) = Len(props.data)
                   /\ \A i \in 1..Len(view) :
                          file.rows[i] = [j \in 1..Len(props.columns) |->
                                             CsvCell(props.columns[j], view[i])]
              ELSE /\ Len(file) = Len(props.data)
                   /\ \A i \in 1..Len(view) :
                          file[i] = JsonRow(props.columns, view[i])
      ]_vars

\* C9 witness: a delimited-text file that lists the rows in the order of the
\* current sorted view, which is not the order of the input
C9_Witness ==
    /\ mounted
    /\ saved # NoFile
    /\ saved.kind = "text/csv"
    /\ LET view == sortedData(props.data, props.columns, sortConfig)
       IN  /\ view # props.data
           /\ saved.content.rows =
                  [i \in 1..Len(view) |->
                      [j \in 1..Len(props.columns) |->
                          CsvCell(props.columns[j], view[i])]]
           /\ saved.content.rows #
                  [i \in 1..Len(props.data) |->
                      [j \in 1..Len(props.columns) |->
                          CsvCell(props.columns[j], props.data[i])]]

\* C10: in the delimited text the header line is the column display names, a
\* cell whose value contains a comma is written in quotes, and a cell whose
\* row value is null or undefined is written as an empty field, for every
\* column type, with or without a custom renderer.
C10_CsvCells ==
    [][(saved' # saved /\ saved'.kind = "text/csv") =>
          LET view == sortedData(props.data, props.columns, sortConfig)
              file == saved'.content
          IN  /\ file.header = [j \in 1..Len(props.columns) |-> props.columns[j].header]
              /\ \A i \in 1..Len(view) : \A j \in 1..Len(props.columns) :
                    LET raw == GetField(view[i], props.columns[j].key)
                    IN  /\ IsNullish(raw) => file.rows[i][j] = Str(<<>>)
                        /\ (raw.t = "string" /\ \E k \in 1..Len(raw.v) : raw.v[k] = ",")
                              => file.rows[i][j] = Str(<<"\"">> \o raw.v \o <<"\"">>)
      ]_vars

\* C11: a structured export of a non-empty collection, read back, has one
\* object per row of the sorted view, in that order, and for every column the
\* value under the column's display name equals the row's raw value under the
\* column's key, whatever the column's renderer.
C11_JsonRoundTrip ==
    [][(saved' # saved /\ saved'.kind = "application/json") =>
          LET view == sortedData(props.data, props.columns, sortConfig)
              file == saved'.content
          IN  /\ Len(file) = Len(view)
              /\ \A i \in 1..Len(view) : \A j \in 1..Len(props.columns) :
                    LET h    == props.columns[j].header
                        read == IF h \in DOMAIN file[i] THEN file[i][h]
                                ELSE JsUndefined
                    IN  read = GetField(view[i], props.columns[j].key)
      ]_vars

\* C12: an export of an empty collection reports "No data to export" and
\* saves no file, and no export, saving or failing, changes the sort state or
\* the rows of the table.
C12_EmptyExportDoesNothing ==
    [][(mounted /\ mounted' /\ (saved' # saved \/ alerted' # alerted)) =>
          /\ sortConfig' = sortConfig
          /\ props' = props
          /\ Len(props.data) = 0 =>
                /\ alerted' = "No data to export"
                /\ saved' = saved
      ]_vars

\* C12 witness: an empty table whose export was refused with the notice, no
\* file saved
C12_Witness ==
    /\ mounted
    /\ Len(props.data) = 0
    /\ alerted = "No data to export"
    /\ saved = NoFile

\* C13: once a load has stored the result object, no render changes it: its
\* content and the order of each of its collections stay as stored, with
\* monthlyStats ascending by month, monthlyBalances ascending by period and
\* partnerVolumes descending by total volume.
C13_ResultImmutable ==
    [][(~pending /\ data # NoData) => data' = data]_vars

\* a record whose booking date cell is a text that parses as a date
HasDate(t) ==
    LET cell == GetField(t, "Booking Date")
    IN  cell.t = "string" /\ IsDateText(cell.v)

\* C14: a record whose booking date is blank or does not parse is kept in the
\* list of all transactions, with its date cell as it was, and the date-keyed
\* aggregates are those of the dated records alone: the same month groups, the
\* same reported date range, the same first and last day of the daily series.
C14_UndatedRecordsExcluded ==
    (/\ ~pending
     /\ csvData.given
     /\ \E i \in 1..Len(csvData.rows) : ~HasDate(csvData.rows[i])
     /\ \E i \in 1..Len(csvData.rows) : HasDate(csvData.rows[i])) =>
        LET rows  == csvData.rows
            dated == Filter(rows, [t \in Range(rows) |-> HasDate(t)])
            alone == ResultObject(tz, dated)
        IN  /\ data # NoData
            /\ Len(data.allTransactions) = Len(rows)
            /\ {t["Booking Date"] : t \in Range(data.allTransactions)} =
                   {t["Booking Date"] : t \in Range(rows)}
            /\ {m.month : m \in Range(data.monthlyStats)} =
                   {m.month : m \in Range(alone.monthlyStats)}
            /\ data.basicStats.dateRange = alone.basicStats.dateRange
            /\ Len(data.dailyBalances) = Len(alone.dailyBalances)
            /\ \A i \in {1, Len(alone.dailyBalances)} \cap DOMAIN alone.dailyBalances :
                   data.dailyBalances[i].date = alone.dailyBalances[i].date

\* C15: a load of a text with no record ends in a failure the user can tell
\* from a result: an error message is set and shown, and no result object is
\* stored by that load, so none with NaN or Infinity in its fields.
C15_NoRecordsIsFailure ==
    [][(pending /\ ~pending' /\ csvData.given /\ Len(csvData.rows) = 0) =>
          /\ data' = data
          /\ error' # NoError
          /\ Display(isLoading', error', data') = "error"
      ]_vars

\* C15 witness: a text of no record was loaded, the failure is on the page
\* and there is no result object
C15_Witness ==
    /\ ~pending
    /\ csvData.given
    /\ Len(csvData.rows) = 0
    /\ shown = "error"
    /\ error = FailureText(ProcessingError(<<>>))
    /\ data = NoData

\* C16: when the aggregation throws, the load sets the error state to the one
\* message "Failed to process financial data: " and the exception's message,
\* ends loading, and leaves the result object as it was.
C16_ExceptionCaught ==
    [][(pending /\ ~pending' /\ csvData.given /\ ProcessingThrows(csvData.rows)) =>
          /\ error' = FailureText(ProcessingError(csvData.rows))
          /\ isLoading' = FALSE
          /\ data' = data
      ]_vars

\* C16 witness: a load that threw on a date that does not parse, after a load
\* that stored a result: the message is set and the result is the earlier one
C16_Witness ==
    /\ ~pending
    /\ csvData.given
    /\ ProcessingError(csvData.rows) = "Invalid time value"
    /\ error = "Failed to process financial data: Invalid time value"
    /\ ~isLoading
    /\ data # NoData

\* a text in which every record has a date that parses and a numeric amount
WellFormed(c) ==
    /\ c.given
    /\ Len(c.rows) > 0
    /\ \A i \in 1..Len(c.rows) : HasDate(c.rows[i]) /\ Amount(c.rows[i]).t = "number"

\* C17: a failure lasts only for the load that produced it: once a well-formed
\* text has been loaded and rendered, the page does not show a failure,
\* whatever the loads before it ended in.
C17_FailureDoesNotPersist ==
    (~pending /\ shown # "stale" /\ WellFormed(csvData)) => shown # "error"

\* C18: a load with no input text, or of records that lack the Booking Date
\* or the Amount (EUR) column, ends in a failure message and stores no result
\* object.
C18_InputErrorsSurfaced ==
    [][(/\ pending
        /\ ~pending'
        /\ \/ ~csvData.given
           \/ \E i \in 1..Len(csvData.rows) :
                 {"Booking Date", "Amount (EUR)"} \ DOMAIN csvData.rows[i] # {}) =>
          /\ error' # NoError
          /\ data' = data
      ]_vars

\* the result object in `data` was stored by the load of the current text
StoredFromCurrent ==
    ~pending /\ csvData.given /\ ~ProcessingThrows(csvData.rows)

\* a record whose partner is a text equal, case aside, to a configured alias
IsAlias(t) ==
    LET partnerName == GetField(t, "Partner Name")
    IN  /\ partnerName.t = "string"
        /\ \E v \in 1..Len(nameVariations) :
               ToLowerCase(partnerName.v) = ToLowerCase(nameVariations[v])

\* the list of all transactions as the canonicalization is described: the
\* records in date order, an alias record with the partner "My Transfers",
\* every other record as it is
Canonical(rows) ==
    LET sorted == sortedTransactions(rows)
    IN  [i \in 1..Len(sorted) |->
            IF IsAlias(sorted[i])
            THEN [sorted[i] EXCEPT !["Partner Name"] = Str(S_MyTransfers)]
            ELSE sorted[i]]

\* the ranking groups named "My Transfers"
MyTransfersGroups ==
    {g \in 1..Len(data.partnerVolumes) :
        data.partnerVolumes[g].name = Str(S_MyTransfers)}

\* C19 as stated: the alias records are listed with the partner "My
\* Transfers", all other records as they are, and the ranking has exactly one
\* group "My Transfers", whose count is the number of alias records; the load
\* leaves the input rows as they were.
C19_AliasesCollapse ==
    /\ [](StoredFromCurrent =>
            LET rows    == csvData.rows
                aliased == {i \in 1..Len(rows) : IsAlias(rows[i])}
            IN  /\ data.allTransactions = Canonical(rows)
                /\ aliased # {} =>
                      /\ Cardinality(MyTransfersGroups) = 1
                      /\ \A g \in MyTransfersGroups :
                            data.partnerVolumes[g].count = Num(Cardinality(aliased)))
    /\ [][(pending /\ ~pending') => csvData' = csvData]_vars

\* C19 amended: the count of the group "My Transfers" is the number of alias
\* records and of records whose partner already is the text "My Transfers".
C19_AliasesCollapse_Amended ==
    /\ [](StoredFromCurrent =>
            LET rows    == csvData.rows
                grouped == {i \in 1..Len(rows) :
                               \/ IsAlias(rows[i])
                               \/ GetField(rows[i], "Partner Name") = Str(S_MyTransfers)}
            IN  /\ data.allTransactions = Canonical(rows)
                /\ grouped # {} =>
                      /\ Cardinality(MyTransfersGroups) = 1
                      /\ \A g \in MyTransfersGroups :
                            data.partnerVolumes[g].count = Num(Cardinality(grouped)))
    /\ [][(pending /\ ~pending') => csvData' = csvData]_vars

\* C19 witness: two records of one day, one under an alias in a spelling of
\* its own and one under another alias, are one group of count 2
C19_Witness ==
    /\ StoredFromCurrent
    /\ Len(csvData.rows) = 2
    /\ \E i, j \in 1..2 :
          /\ GetField(csvData.rows[i], "Partner Name") = Str(S_AliasLower)
          /\ GetField(csvData.rows[j], "Partner Name") = Str(S_Alias2)
    /\ \E g \in MyTransfersGroups : data.partnerVolumes[g].count = Num(2)
    /\ \A i \in 1..2 :
          GetField(data.allTransactions[i], "Partner Name") = Str(S_MyTransfers)

\* C20: the records whose Original Currency cell is blank are counted in a
\* currency group named "EUR", and every group of the distribution is named
\* "EUR" or the currency text of a record.
C20_BlankCurrencyIsEUR ==
    StoredFromCurrent =>
        LET rows  == csvData.rows
            blank == {i \in 1..Len(rows) :
                         IsNullish(GetField(rows[i], "Original Currency"))}
            texts == {GetField(rows[i], "Original Currency") :
                         i \in (1..Len(rows)) \ blank}
        IN  /\ \A g \in 1..Len(data.currencyDistribution) :
                   data.currencyDistribution[g].name \in texts \cup {Str(S_EUR)}
            /\ blank # {} =>
                   \E g \in 1..Len(data.currencyDistribution) :
                       /\ data.currencyDistribution[g].name = Str(S_EUR)
                       /\ data.currencyDistribution[g].count.v >= Cardinality(blank)

\* the value a sort of the given type is said to compare a row by: in a
\* number sort the number, 0 when there is none; in a date sort the time of
\* the date, 0 (the epoch) when the value is missing or is no date
SortValue(type, key, row) ==
    LET value == GetField(row, key)
    IN  IF type = "number"
        THEN (IF value.t = "number" THEN value.v ELSE 0)
        ELSE (IF value.t = "string" /\ IsDateText(value.v)
              THEN DateTextTime(value.v) ELSE 0)

\* C26: in a number sort and in a date sort two rows compare as their values
\* do, a missing number counting as 0 and a missing or unparseable date as
\* the epoch; comparing by a value of each row, the comparison is a
\* consistent total preorder.
C26_MissingValuesCoerced ==
    (mounted /\ sortConfig.key # "null"
        /\ ColumnType(props.columns, sortConfig.key) \in {"number", "date"}) =>
        LET type == ColumnType(props.columns, sortConfig.key)
        IN  \A a, b \in Range(props.data) :
               LET d == SortValue(type, sortConfig.key, a)
                            - SortValue(type, sortConfig.key, b)
               IN  Sign(Compare(type, sortConfig, a, b)) =
                       IF sortConfig.direction = "asc" THEN Sign(d) ELSE Sign(-d)

\* C27: sorting is idempotent: the sort of the sorted view, for the same key,
\* type and direction, is the sorted view.
C27_SortIdempotent ==
    (mounted /\ sortConfig.key # "null") =>
        LET view == sortedData(props.data, props.columns, sortConfig)
        IN  sortedData(view, props.columns, sortConfig) = view

\* C27 witness: an ascending sort that reorders its rows and leaves rows that
\* tie, and whose result sorts to itself
C27_Witness ==
    /\ mounted
    /\ sortConfig.key # "null"
    /\ sortConfig.direction = "asc"
    /\ LET view == sortedData(props.data, props.columns, sortConfig)
           type == ColumnType(props.columns, sortConfig.key)
       IN  /\ view # props.data
           /\ sortedData(view, props.columns, sortConfig) = view
           /\ \E i \in 1..(Len(view) - 1) :
                 /\ view[i] # view[i + 1]
                 /\ Compare(type, sortConfig, view[i], view[i + 1]) = 0

\* the number of times row r occurs in rows
Occurrences(rows, r) == Cardinality({i \in 1..Len(rows) : rows[i] = r})

\* C28: the rows passed to the table stay as they were passed, whatever
\* headers are activated, and the sorted view is a permutation of them.
C28_InputRowsUntouched ==
    /\ [](mounted =>
            LET view == sortedData(props.data, props.columns, sortConfig)
            IN  /\ Len(view) = Len(props.data)
                /\ \A r \in Range(props.data) \cup Range(view) :
                      Occurrences(view, r) = Occurrences(props.data, r))
    /\ [][mounted => props' = props]_vars

\* C28 witness: three rows, two of them the same, shown in another order
\* than the one they were passed in
C28_Witness ==
    /\ mounted
    /\ sortConfig.key # "null"
    /\ Len(props.data) = 3
    /\ Cardinality(Range(props.data)) = 2
    /\ sortedData(props.data, props.columns, sortConfig) # props.data

\* the rows an instance of the given props and sort state displays
ViewOf(instance) ==
    sortedData(instance.props.data, instance.props.columns, instance.sortConfig)

\* C25: the sort state is private to an instance: a header activation on one
\* of two mounted tables leaves the sort key, the direction and the displayed
\* row order of the other as they were, and an export leaves those of both.
C25_SortStateIsPrivate ==
    [][(mounted /\ second # NoInstance) =>
          /\ sortConfig' # sortConfig =>
                /\ second' = second
                /\ ViewOf(second') = ViewOf(second)
          /\ second' # second =>
                /\ sortConfig' = sortConfig
                /\ props' = props
                /\ sortedData(props'.data, props'.columns, sortConfig') =
                       sortedData(props.data, props.columns, sortConfig)
          /\ (saved' # saved \/ alerted' # alerted) =>
                /\ sortConfig' = sortConfig
                /\ props' = props
                /\ second' = second
      ]_vars

\* C25 witness: two tables over the same rows, the first sorted and exported,
\* the second still in the order of its rows, which is another order
C25_Witness ==
    /\ mounted
    /\ second # NoInstance
    /\ second.props.data = props.data
    /\ sortConfig.key # "null"
    /\ second.sortConfig = NoSort
    /\ saved # NoFile
    /\ sortedData(props.data, props.columns, sortConfig) # ViewOf(second)

\* C29: a stored result object has a daily balance series of at least one
\* entry and a totalDays of at least 1, so that the render of the ending
\* balance does not fail.
C29_SeriesNonEmpty ==
    data # NoData =>
        /\ Len(data.dailyBalances) >= 1
        /\ data.yearlyBalance.totalDays.v >= 1
        /\ shown # "crashed"

\* C30: the month groups partition the records: within each group net is
\* inflow - outflow, and over the groups the counts sum to totalTransactions,
\* the inflows to the overall inflows, the outflow magnitudes to the absolute
\* value of the overall outflows and the nets to netFlow.
C30_MonthsPartitionRecords ==
    data # NoData =>
        LET months == data.monthlyStats
            stats  == data.basicStats
        IN  /\ \A m \in Range(months) :
                  /\ m.inflow.t = "number" /\ m.outflow.t = "number"
                  /\ m.net = Num(m.inflow.v - m.outflow.v)
            /\ Num(SumOf(months, [m \in Range(months) |-> m.count.v]))
                   = stats.totalTransactions
            /\ Num(SumOf(months, [m \in Range(months) |-> m.inflow.v]))
                   = stats.inflows
            /\ Num(SumOf(months, [m \in Range(months) |-> m.outflow.v]))
                   = MathAbs(stats.outflows)
            /\ Num(SumOf(months, [m \in Range(months) |-> m.net.v]))
                   = stats.netFlow

\* ISO 8601: the week of a date is the week, Monday to Sunday, of its
\* Thursday; its year is the year of that Thursday and its number counts the
\* Thursdays of that year
IsoWeekKey(d) ==
    LET day      == DateTextTime(d) \div 24
        weekday  == (day + 3) % 7
        thursday == day - weekday + 3
        year     == CivilFromDays(thursday)[1]
        week     == (thursday - DaysFromCivil(year, 1, 1)) \div 7 + 1
    IN  NatChars(year) \o <<"-", "W">> \o Pad2(week)

\* C23: the week buckets are the ISO 8601 weeks: each day of the daily series
\* is counted in the bucket whose key is the ISO week-year and week of its
\* date, so the days Monday to Sunday of one ISO week share one key.
C23_WeeksAreIsoWeeks ==
    data # NoData =>
        LET days == data.dailyBalances
        IN  /\ \A e \in Range(days) :
                  \E w \in Range(data.weeklyBalances) : w.period.v = IsoWeekKey(e.date.v)
            /\ \A w \in Range(data.weeklyBalances) :
                  w.days.v = Cardinality({i \in 1..Len(days) :
                                             IsoWeekKey(days[i].date.v) = w.period.v})

\* the product of the day counts of the buckets, a common denominator of
\* their means
CommonDays(buckets) ==
    LET prod[i \in 0..Len(buckets)] ==
            IF i = 0 THEN 1 ELSE prod[i - 1] * buckets[i].avgBalance.den
    IN  prod[Len(buckets)]

\* the buckets split the days by the key: every day has the key of exactly
\* one bucket, the day counts add up to the number of days, and the means
\* weighted by the day counts add up to the sum of the balances
BucketsSplit(days, buckets, key) ==
    /\ \A i \in 1..Len(days) :
          Cardinality({g \in 1..Len(buckets) :
                          buckets[g].period.v = key[days[i]]}) = 1
    /\ \A g \in 1..Len(buckets) :
          /\ buckets[g].avgBalance.t = "ratio"
          /\ buckets[g].days.v =
                Cardinality({i \in 1..Len(days) :
                                key[days[i]] = buckets[g].period.v})
    /\ SumOf(buckets, [w \in Range(buckets) |-> w.days.v]) = Len(days)
    /\ SumOf(buckets, [w \in Range(buckets) |->
                          (w.avgBalance.num * w.days.v * CommonDays(buckets))
                              \div w.avgBalance.den])
          = CommonDays(buckets) * SumOf(days, [e \in Range(days) |-> e.balance.v])
    /\ \A w \in Range(buckets) :
          (w.avgBalance.num * w.days.v * CommonDays(buckets)) % w.avgBalance.den = 0

\* C22: every day of the gap-filled series lies in exactly one week bucket
\* and in exactly one month bucket; the day counts of the week buckets, and
\* of the month buckets, add up to totalDays, and the sum over the buckets of
\* avgBalance * days is the sum of all daily balances, which is
\* yearlyAvgBalance * totalDays.
C22_BucketsReconstructYear ==
    data # NoData =>
        LET days  == data.dailyBalances
            year  == data.yearlyBalance
            weekOf  == [e \in Range(days) |->
                           LET w == getWeekNumber(tz, e.date.v)
                           IN  formatWeekKey(w.year, w.week)]
            monthOf == [e \in Range(days) |-> SubSeq(e.date.v, 1, 7)]
        IN  /\ BucketsSplit(days, data.weeklyBalances, weekOf)
            /\ BucketsSplit(days, data.monthlyBalances, monthOf)
            /\ year.totalDays.v = Len(days)
            /\ year.yearlyAvgBalance.den = year.totalDays.v
            /\ year.yearlyAvgBalance.num =
                  SumOf(days, [e \in Range(days) |-> e.balance.v])

\* a stored series that spans two weeks and two months, with a full week
\* whose days have different balances
C22_Witness ==
    /\ data # NoData
    /\ Len(data.weeklyBalances) = 2
    /\ Len(data.monthlyBalances) = 2
    /\ \E w \in Range(data.weeklyBalances) :
          /\ w.days.v = 7
          /\ w.avgBalance.num % w.avgBalance.den # 0

\* the amount a record counts with: its amount cell when that is a number,
\* 0 when the cell is blank or the row has no amount field
AmountOrZero(t) ==
    LET amount == GetField(t, "Amount (EUR)")
    IN  IF amount.t = "number" THEN amount.v ELSE 0

\* C24: a record whose amount is missing, by a blank cell or by a row without
\* the field, counts as 0 in every sum: the totals, the running balance and
\* the sums of every month and partner group are numbers, the totals are the
\* sums of the amounts with 0 for a missing one, and the record is in the
\* list of all transactions.
C24_MissingAmountCountsAsZero ==
    /\ data # NoData =>
          /\ \A f \in {"totalVolume", "inflows", "outflows", "netFlow"} :
                data.basicStats[f].t = "number"
          /\ \A e \in Range(data.dailyBalances) : e.balance.t = "number"
          /\ \A m \in Range(data.monthlyStats) :
                \A f \in {"inflow", "outflow", "net"} : m[f].t = "number"
          /\ \A p \in Range(data.partnerVolumes) :
                \A f \in {"totalVolume", "totalIn", "totalOut", "net"} :
                    p[f].t = "number"
    /\ StoredFromCurrent =>
          LET rows == csvData.rows
          IN  /\ Len(data.allTransactions) = Len(rows)
              /\ data.basicStats.totalVolume
                    = Num(SumOf(rows, [t \in Range(rows) |-> Abs(AmountOrZero(t))]))
              /\ data.basicStats.netFlow
                    = Num(SumOf(rows, [t \in Range(rows) |-> AmountOrZero(t)]))

\* the name a raw type label is to be shown with
ShownAs(label) ==
    CASE label = Str(S_Presentment) -> Str(S_CardPayment)
      [] label = Str(S_Refund)      -> Str(S_CardRefund)
      [] OTHER                      -> label

=============================================================================
